---- MODULE Spec2Model ----
(***************************************************************************)
(* A model of the morm schema-migration engine (inedumozey/morm).          *)
(*                                                                         *)
(* The engine (class Morm) holds a list of model runtimes, an enum         *)
(* registry and the re-entrancy flag _migrating.  Morm.migrate reconciles  *)
(* a PostgreSQL database with the declaration.  The database is modelled   *)
(* as a value (enum types, tables, columns, constraints, indexes); the     *)
(* statements that migrate sends through the pool are applied to the       *)
(* committed database at once (autocommit), the statements sent through    *)
(* the pooled client between BEGIN and COMMIT are applied to the working   *)
(* copy tx and become visible on COMMIT only.                              *)
(***************************************************************************)
EXTENDS Integers, Sequences, FiniteSets, TLC

VARIABLES
    models,        \* Morm.models: the model runtimes, in the engine's current order
    enumRegistry,  \* Morm.enumRegistry: [enumsByName, enumNameByValues, errors]
    migrating,     \* Morm._migrating
    db,            \* the committed database
    tx,            \* the working copy of the open transaction (db when none is open)
    inTx,          \* a transaction is open on the pooled client
    pc,            \* position of the migrate call in progress
    options,       \* the options of the call in progress: [reset |-> BOOLEAN]
    result,        \* what the last ended call gave its caller: "none","true","false","threw"
    log,           \* statements that changed the schema, issued by the call in progress
    db0,           \* the committed database when the call in progress started
    notes,         \* facts about the last call (a phase failed, a rollback happened, ...)
                   \* and "written": rows were written since it ended
    refused,       \* what the last call made while another was in progress returned
    calls,         \* number of migrate calls made so far
    declared,      \* the declaration the engine was built from
    redeclared,    \* the process was restarted with another declaration
    instances,     \* Morm.instances: connection string -> the cached instance (0: none)
    inits,         \* the calls of Morm.init: where each is, what it created and returned
    pools,         \* the instances on which init has installed a pool
    settings,      \* lock_timeout and statement_timeout (ms, 0: off) in force on the
                   \* pooled client that runs the open transaction
    txn,           \* the call of Morm.transaction: where it is and what it has done
    check          \* a CHECK expression given to parseCheck, and what parseCheck gave

migrateVars == <<models, enumRegistry, migrating, db, tx, inTx, pc, options, result,
                 log, db0, notes, refused, calls, declared, redeclared>>
initVars == <<instances, inits, pools>>
txnVars == <<settings, txn>>
vars == <<migrateVars, initVars, txnVars, check>>

(***************************************************************************)
(* Bounds                                                                  *)
(***************************************************************************)
MaxCalls == 3
\* calls of Morm.init
MaxInits == 3

(***************************************************************************)
(* Sequence helpers                                                        *)
(***************************************************************************)
Range(s) == {s[i] : i \in DOMAIN s}

RECURSIVE SelectIdx(_, _, _)
\* first index i >= from of s with s[i].name = n, 0 when there is none
SelectIdx(s, n, from) ==
    IF from > Len(s) THEN 0
    ELSE IF s[from].name = n THEN from
    ELSE SelectIdx(s, n, from + 1)

IndexOfName(s, n) == SelectIdx(s, n, 1)
HasName(s, n) == IndexOfName(s, n) # 0
Names(s) == [i \in DOMAIN s |-> s[i].name]

RECURSIVE RemoveName(_, _)
RemoveName(s, n) ==
    IF s = <<>> THEN <<>>
    ELSE IF Head(s).name = n THEN Tail(s)
    ELSE <<Head(s)>> \o RemoveName(Tail(s), n)

RECURSIVE RemoveValue(_, _)
\* Array.splice(indexOf(v), 1)
RemoveValue(s, v) ==
    IF s = <<>> THEN <<>>
    ELSE IF Head(s) = v THEN Tail(s)
    ELSE <<Head(s)>> \o RemoveValue(Tail(s), v)

SeqContains(s, v) == \E i \in DOMAIN s : s[i] = v

\* the element of a one-element set: The({e : v \in {d}}) is e with v bound to d
The(S) == CHOOSE r \in S : TRUE

(***************************************************************************)
(* Strings.  TLC has no string functions, so the conversions of the code   *)
(* are tables over the strings the model uses.                             *)
(***************************************************************************)
\* String.prototype.toUpperCase on the type names the database reports
toUpperCase(t) ==
    CASE t = "integer" -> "INTEGER"
      [] t = "text" -> "TEXT"
      [] t = "uuid" -> "UUID"
      [] t = "timestamp with time zone" -> "TIMESTAMP WITH TIME ZONE"
      [] OTHER -> t

\* map[raw] ?? raw, raw being the upper-cased name
canonicalType(t) ==
    The({ CASE raw \in {"INT", "INT4"} -> "INTEGER"
            [] raw = "INT2" -> "SMALLINT"
            [] raw = "INT8" -> "BIGINT"
            [] raw = "DECIMAL" -> "NUMERIC"
            [] raw = "BOOL" -> "BOOLEAN"
            [] raw = "TIME WITHOUT TIME ZONE" -> "TIME"
            [] raw = "TIMESTAMP WITHOUT TIME ZONE" -> "TIMESTAMP"
            [] raw = "TIMESTAMP WITH TIME ZONE" -> "TIMESTAMPTZ"
            [] OTHER -> raw
          : raw \in {toUpperCase(t)} })

\* the declared array types of the model; t.endsWith("[]")
isArrayType(t) == t \in {"UUID[]", "TEXT[]"}
\* t.slice(0, -2) for an array type
baseType(t) ==
    CASE t = "UUID[]" -> "UUID"
      [] t = "TEXT[]" -> "TEXT"
      [] OTHER -> t

BUILTIN_SCALARS ==
    {"TEXT", "INT", "INTEGER", "BIGINT", "SMALLINT", "UUID", "BOOLEAN", "JSONB",
     "TIMESTAMP", "TIMESTAMPTZ", "DATE", "TIME", "TIMEZ", "NUMERIC", "DECIMAL"}

\* the type PostgreSQL stores for a builtin type name of a column fragment
pgDataType(t) ==
    CASE t \in {"INT", "INTEGER"} -> "integer"
      [] t = "TEXT" -> "text"
      [] t = "UUID" -> "uuid"
      [] t = "TIMESTAMPTZ" -> "timestamp with time zone"
      [] isArrayType(t) -> "ARRAY"
      [] OTHER -> t

normalizeRelation(input) ==
    CASE input \in {"1:1", "nn", "one_to_one"} -> "ONE-TO-ONE"
      [] input \in {"1:m", "nm", "one-to-many"} -> "ONE-TO-MANY"
      [] input \in {"m:m", "mm", "many-to-many"} -> "MANY-TO-MANY"
      [] OTHER -> "null"

VALID_FK_ACTIONS == {"CASCADE", "SET NULL", "SET DEFAULT", "RESTRICT", "NO ACTION"}

(***************************************************************************)
(* EnumRegistry                                                            *)
(***************************************************************************)
\* enumsByName: the Map name -> values in insertion order; enumNameByValues: the
\* Map valuesKey -> name
EmptyRegistry == [enumsByName |-> <<>>, enumNameByValues |-> <<>>, errors |-> <<>>]

\* name.trim().toUpperCase()
normName(name) ==
    CASE name \in {"role", " ROLE", "Role"} -> "ROLE"
      [] name \in {"status", "Status"} -> "STATUS"
      [] OTHER -> name

RECURSIVE valuesKey(_)
\* values.join("|||")
valuesKey(values) ==
    IF values = <<>> THEN ""
    ELSE IF Len(values) = 1 THEN values[1]
    ELSE values[1] \o "|||" \o valuesKey(Tail(values))

\* every definition is set, whatever the registry holds
registerOneAlways(reg, e) ==
    [reg EXCEPT !.enumsByName = Append(RemoveName(@, normName(e.name)),
                                       [name |-> normName(e.name), values |-> e.values])]

\* one iteration of the loop of EnumRegistry.register
registerOne(reg, e) ==
    LET name == normName(e.name)
        i == IndexOfName(reg.enumsByName, name)
        key == valuesKey(e.values)
    IN  IF i # 0
        THEN IF reg.enumsByName[i].values # e.values
             THEN [reg EXCEPT !.errors = Append(@, "redefined")]
             ELSE reg
        ELSE IF \E j \in DOMAIN reg.enumNameByValues : reg.enumNameByValues[j].key = key
             THEN [reg EXCEPT !.errors = Append(@, "duplicate values")]
             ELSE [reg EXCEPT !.enumsByName = Append(@, [name |-> name, values |-> e.values]),
                              !.enumNameByValues = Append(@, [key |-> key, name |-> name])]

RECURSIVE register(_, _)
register(reg, defs) ==
    IF defs = <<>> THEN reg
    ELSE register(registerOne(reg, Head(defs)), Tail(defs))

hasErrors(reg) == Len(reg.errors) > 0
clearErrors(reg) == [reg EXCEPT !.errors = <<>>]

(***************************************************************************)
(* Column declarations                                                     *)
(***************************************************************************)
\* references absent
NoRef == [table |-> "", column |-> "", relation |-> "", onDelete |-> "", onUpdate |-> ""]

\* a ColumnDefinition; "undef" and "" stand for an absent property, the default
\* "null" for default: null
Col(name, type) ==
    [name |-> name, type |-> type, primary |-> FALSE, unique |-> "undef",
     notNull |-> "undef", default |-> "", check |-> "", references |-> NoRef,
     primaryFlag |-> FALSE, renamed |-> FALSE, virtual |-> FALSE,
     \* __identity: declared on the column type, assigned nowhere
     identity |-> FALSE]

hasReferences(c) == c.references.table # "" \/ c.references.column # ""

(***************************************************************************)
(* utils/defaultValidator, utils/checkParser (as far as model validation   *)
(* reads them)                                                             *)
(***************************************************************************)
isUuidLiteral(d) == d = "00000000-0000-0000-0000-000000000000"
isISODateString(d) == d = "2024-01-01"
isWholeNumberString(d) == d \in {"0", "18"}
looksLikeFunction(d) == d \in {"uuid()", "now()", "int()"}

\* TRUE iff validateDefaultValue returns a non-empty error list
validateDefaultValue(c, canonicalBase, isArray) ==
    LET d == c.default IN
    IF d = "" THEN FALSE
    ELSE IF isArray THEN TRUE   \* the model has no array defaults: a scalar default is an error
    ELSE CASE canonicalBase = "UUID" -> ~(d = "uuid()" \/ isUuidLiteral(d))
           [] canonicalBase \in {"INT", "INTEGER", "SMALLINT", "BIGINT"} ->
                  ~(d = "int()" \/ isWholeNumberString(d))
           [] canonicalBase = "TEXT" -> looksLikeFunction(d)
           [] canonicalBase \in {"TIMEZ", "TIMESTAMPTZ", "TIME", "TIMESTAMP"} ->
                  ~(d = "now()" \/ isISODateString(d))
           [] OTHER -> FALSE

\* parseCheck on the expressions of the model: the SQL, or "throw"
parseCheck(expr) ==
    CASE expr = "age >= 18" -> "(age >= 18)"
      [] expr = "age >= 21" -> "(age >= 21)"
      [] OTHER -> "throw"

(***************************************************************************)
(* createModelRuntime                                                      *)
(***************************************************************************)
timestampColumn(name) ==
    [Col(name, "TIMESTAMPTZ") EXCEPT !.notNull = "true", !.default = "now()"]

\* clone the columns and auto-add created_at / updated_at
processedColumns(columns) ==
    LET a == IF HasName(columns, "created_at") THEN columns
             ELSE Append(columns, timestampColumn("created_at"))
    IN  IF HasName(a, "updated_at") THEN a
        ELSE Append(a, timestampColumn("updated_at"))

isManyToManyColumn(c) ==
    /\ hasReferences(c)
    /\ c.references.relation # ""
    /\ normalizeRelation(c.references.relation) = "MANY-TO-MANY"

\* the body of the validation loop for one column: the column as the loop leaves it
validatedColumn(c) ==
    [c EXCEPT !.primaryFlag = c.primary, !.virtual = isManyToManyColumn(c)]

\* the validation messages one column adds
columnHasValidationMessage(c) ==
    IF isManyToManyColumn(c) THEN FALSE
    ELSE LET isArray == isArrayType(c.type)
             canonicalBase == canonicalType(baseType(c.type))
         IN  IF c.default # "null" /\ validateDefaultValue(c, canonicalBase, isArray)
             THEN TRUE
             ELSE c.check # "" /\ ~hasReferences(c) /\ parseCheck(c.check) = "throw"

firstPrimaryName(cols) ==
    IF \E i \in DOMAIN cols : cols[i].primaryFlag
    THEN cols[CHOOSE i \in DOMAIN cols :
                 /\ cols[i].primaryFlag
                 /\ \A j \in DOMAIN cols : cols[j].primaryFlag => i <= j].name
    ELSE "id"

createModelRuntime(config) ==
    LET processed0 == processedColumns(config.columns)
        processed == [i \in DOMAIN processed0 |-> validatedColumn(processed0[i])]
        failed == \E i \in DOMAIN processed0 : columnHasValidationMessage(processed0[i])
    IN  [table |-> config.table,
         columns |-> processed,
         indexes |-> config.indexes,
         \* sql.create is "" exactly when validation failed
         createIsEmpty |-> failed,
         primaryKey |-> firstPrimaryName(processed),
         outgoing |-> <<>>]


(***************************************************************************)
(* The database (PostgreSQL, schema public) and the session.               *)
(*                                                                         *)
(* db = [enums, tables].  An enum is [name, values]; db.enums is ordered   *)
(* by name, as the catalog query of migrateEnumsGlobal orders it.  A table *)
(* is [name, rows, columns, checks, indexes, triggers]; rows says whether  *)
(* the table holds rows.  A column is                                      *)
(*   [name, data_type, udt_name, notnull, unique, pk, column_default, fk,  *)
(*    nulls]                                                               *)
(* where nulls says whether some row holds NULL in it.  A check constraint *)
(* <tbl>_<col>_check is [tbl, col, on, def], an index <tbl>_<col>_idx is   *)
(* [tbl, col, on]; on is the column the object depends on (a renamed       *)
(* column keeps its constraints and indexes under their old names).        *)
(*                                                                         *)
(* A session s = [db, log, thrown] is threaded through the statements of   *)
(* one step: a statement that PostgreSQL rejects sets thrown (the awaited  *)
(* query rejects), and nothing after it is executed.                       *)
(***************************************************************************)
EmptyDb == [enums |-> <<>>, tables |-> <<>>]

NoFk == [table |-> "", column |-> "", onDelete |-> "", onUpdate |-> ""]

Event(op, obj, col, data) == [op |-> op, obj |-> obj, col |-> col, data |-> data]

Session(d) == [db |-> d, log |-> <<>>, thrown |-> FALSE, aborted |-> FALSE]
throw(s) == [s EXCEPT !.thrown = TRUE]
\* a statement has failed inside the transaction: PostgreSQL rejects every statement
\* that follows until the transaction ends
abort(s) == [s EXCEPT !.aborted = TRUE]
\* the statement ev was sent and rejected because the transaction is aborted
rejectedStatement(ev) == [ev EXCEPT !.op = @ \o " (rejected)"]
emit(s, d, ev) ==
    IF s.aborted THEN [s EXCEPT !.thrown = TRUE, !.log = Append(@, rejectedStatement(ev))]
    ELSE [s EXCEPT !.db = d, !.log = Append(@, ev)]

tableIdx(d, t) == IndexOfName(d.tables, t)
tableExistsIn(d, t) == tableIdx(d, t) # 0
getTable(d, t) == d.tables[tableIdx(d, t)]
putTable(d, tbl) == [d EXCEPT !.tables[tableIdx(d, tbl.name)] = tbl]
tableHasRows(d, t) == tableExistsIn(d, t) /\ getTable(d, t).rows

getColumn(tbl, c) == tbl.columns[IndexOfName(tbl.columns, c)]
putColumn(tbl, col) == [tbl EXCEPT !.columns[IndexOfName(tbl.columns, col.name)] = col]

enumExistsIn(d, n) == HasName(d.enums, n)

\* the alphabetical order of the enum names of the model
nameRank(n) ==
    CASE n = "COLOR" -> 1
      [] n = "ROLE" -> 2
      [] n = "STATUS" -> 3
      [] OTHER -> 4

RECURSIVE insertByName(_, _)
insertByName(s, e) ==
    IF s = <<>> THEN <<e>>
    ELSE IF nameRank(e.name) < nameRank(Head(s).name) THEN <<e>> \o s
    ELSE <<Head(s)>> \o insertByName(Tail(s), e)

\* enumUsage: the columns whose udt_name is the enum
enumUsage(d, enumName) ==
    UNION { { <<d.tables[i].name, d.tables[i].columns[j].name>> :
                j \in {k \in DOMAIN d.tables[i].columns :
                          d.tables[i].columns[k].udt_name = enumName} } :
            i \in DOMAIN d.tables }

(***************************************************************************)
(* Statements on enum types                                                *)
(***************************************************************************)
\* CREATE TYPE "name" AS ENUM (values)
createType(s, name, values) ==
    IF s.thrown THEN s
    ELSE IF enumExistsIn(s.db, name) THEN throw(s)
    ELSE emit(s, [s.db EXCEPT !.enums = insertByName(@, [name |-> name, values |-> values])],
              Event("CREATE TYPE", name, "", FALSE))

\* DROP TYPE "name": rejected while a column depends on the type
dropType(s, name) ==
    IF s.thrown THEN s
    ELSE IF ~enumExistsIn(s.db, name) \/ enumUsage(s.db, name) # {} THEN throw(s)
    ELSE emit(s, [s.db EXCEPT !.enums = RemoveName(@, name)],
              Event("DROP TYPE", name, "", FALSE))

\* ALTER TYPE "name" ADD VALUE 'v': the new label goes last
addValue(s, name, v) ==
    IF s.thrown THEN s
    ELSE LET i == IndexOfName(s.db.enums, name) IN
         IF i = 0 \/ SeqContains(s.db.enums[i].values, v) THEN throw(s)
         ELSE emit(s, [s.db EXCEPT !.enums[i].values = Append(@, v)],
                   Event("ADD VALUE", name, v, FALSE))

(***************************************************************************)
(* migrateEnumsGlobal                                                      *)
(***************************************************************************)
\* RENAME DETECTION, inner loop: the first desired enum that is absent from the
\* database and has the values of the database enum; 0 when there is none
RECURSIVE renameTarget(_, _, _, _)
renameTarget(dbEnums, desiredEnums, dbValues, k) ==
    IF k > Len(desiredEnums) THEN 0
    ELSE IF ~HasName(dbEnums, desiredEnums[k].name)
            /\ valuesKey(desiredEnums[k].values) = valuesKey(dbValues)
         THEN k
         ELSE renameTarget(dbEnums, desiredEnums, dbValues, k + 1)

RECURSIVE detectRenames(_, _, _)
\* the list renamed: [from, to]
detectRenames(dbEnums, desiredEnums, i) ==
    IF i > Len(dbEnums) THEN <<>>
    ELSE LET k == IF HasName(desiredEnums, dbEnums[i].name) THEN 0
                  ELSE renameTarget(dbEnums, desiredEnums, dbEnums[i].values, 1)
             rest == detectRenames(dbEnums, desiredEnums, i + 1)
         IN  IF k = 0 THEN rest
             ELSE <<[from |-> dbEnums[i].name, to |-> desiredEnums[k].name]>> \o rest

RECURSIVE dropRemoved(_, _, _, _, _)
\* DROP REMOVED: an enum that is in use is left in place (blocked), not an error
dropRemoved(s, dbEnums, desiredEnums, renamed, i) ==
    IF i > Len(dbEnums) \/ s.thrown THEN s
    ELSE LET name == dbEnums[i].name
             skip == \/ \E r \in Range(renamed) : r.from = name
                     \/ HasName(desiredEnums, name)
                     \/ enumUsage(s.db, name) # {}
         IN  dropRemoved(IF skip THEN s ELSE dropType(s, name),
                         dbEnums, desiredEnums, renamed, i + 1)

RECURSIVE addValues(_, _, _)
addValues(s, name, added) ==
    IF added = <<>> \/ s.thrown THEN s
    ELSE addValues(addValue(s, name, Head(added)), name, Tail(added))

\* desired.filter(v => !existingSet.has(v))
valuesNotIn(vals, other) == SelectSeq(vals, LAMBDA v : ~SeqContains(other, v))

\* CREATE / UPDATE, the body of the loop for one desired enum
createOrUpdate(s, dbEnums, renamed, e) ==
    IF \E r \in Range(renamed) : r.to = e.name THEN s
    ELSE IF ~HasName(dbEnums, e.name) THEN createType(s, e.name, e.values)
    ELSE LET existing == dbEnums[IndexOfName(dbEnums, e.name)].values
             added == valuesNotIn(e.values, existing)
             removed == valuesNotIn(existing, e.values)
         IN  IF removed # <<>>
             THEN IF enumUsage(s.db, e.name) # {} THEN s   \* blocked
                  ELSE createType(dropType(s, e.name), e.name, e.values)
             ELSE addValues(s, e.name, added)

RECURSIVE createOrUpdateAll(_, _, _, _, _)
createOrUpdateAll(s, dbEnums, desiredEnums, renamed, i) ==
    IF i > Len(desiredEnums) \/ s.thrown THEN s
    ELSE createOrUpdateAll(createOrUpdate(s, dbEnums, renamed, desiredEnums[i]),
                           dbEnums, desiredEnums, renamed, i + 1)

RECURSIVE applyRenames(_, _, _, _)
\* APPLY RENAME: DROP TYPE from, CREATE TYPE to
applyRenames(s, desiredEnums, renamed, i) ==
    IF i > Len(renamed) \/ s.thrown THEN s
    ELSE LET r == renamed[i]
             values == desiredEnums[IndexOfName(desiredEnums, r.to)].values
         IN  applyRenames(createType(dropType(s, r.from), r.to, values),
                          desiredEnums, renamed, i + 1)

migrateEnumsGlobal(s, enums) ==
    LET dbEnums == s.db.enums
        renamed == detectRenames(dbEnums, enums, 1)
        s1 == dropRemoved(s, dbEnums, enums, renamed, 1)
        s2 == createOrUpdateAll(s1, dbEnums, enums, renamed, 1)
    IN  applyRenames(s2, enums, renamed, 1)

(***************************************************************************)
(* buildColumnSQL: the column fragment, as the record of its clauses       *)
(***************************************************************************)
\* escapeLiteral + quotes, on the literals of the model
quoteLiteral(d) ==
    CASE d = "ADMIN" -> "'ADMIN'"
      [] d = "abc" -> "'abc'"
      [] d = "0" -> "'0'"
      [] d = "18" -> "'18'"
      [] d = "2024-01-01" -> "'2024-01-01'"
      [] OTHER -> d

\* buildDefault: the DEFAULT expression, "" when no DEFAULT clause is emitted
buildDefault(col, typUpper) ==
    LET def == col.default IN
    IF def = "" THEN ""
    ELSE IF def = "null" THEN "NULL"
    ELSE IF def = "uuid()" THEN "gen_random_uuid()"
    ELSE IF def = "now()"
         THEN CASE typUpper = "TIME" -> "CURRENT_TIME::time"
                [] typUpper = "TIMETZ" -> "CURRENT_TIME"
                [] typUpper = "DATE" -> "CURRENT_DATE"
                [] typUpper = "TIMESTAMP" -> "CURRENT_TIMESTAMP::timestamp"
                [] typUpper = "TIMESTAMPTZ" -> "CURRENT_TIMESTAMP"
                [] OTHER -> "throw"
    ELSE IF isWholeNumberString(def) /\ typUpper \in {"INT", "SMALLINT", "BIGINT", "DECIMAL"}
         THEN def
    ELSE IF looksLikeFunction(def) THEN def
    ELSE quoteLiteral(def)

buildColumnSQL(col) ==
    LET typUpper == col.type
        isEnum == ~isArrayType(typUpper) /\ typUpper \notin BUILTIN_SCALARS
        isOneToOne == hasReferences(col) /\
                      normalizeRelation(col.references.relation) = "ONE-TO-ONE"
        checkSql == IF col.check # "" /\ ~hasReferences(col) THEN parseCheck(col.check) ELSE ""
        cut == checkSql = "throw"     \* the fragment ends after the constraints
    IN  [empty |-> col.virtual,
         name |-> col.name,
         isEnum |-> isEnum,
         identity |-> col.identity,
         type |-> IF col.identity
                  THEN (IF typUpper \in {"SMALLINT", "BIGINT"} THEN typUpper ELSE "INTEGER")
                  ELSE IF isEnum THEN canonicalType(col.type) ELSE typUpper,
         primaryKey |-> col.primaryFlag,
         notNull |-> \/ (~col.primaryFlag /\ col.notNull = "true")
                     \/ (~cut /\ isOneToOne /\ col.notNull # "false"),
         unique |-> \/ (~col.primaryFlag /\ col.unique = "true")
                    \/ (~cut /\ isOneToOne),
         check |-> IF cut THEN "" ELSE checkSql,
         default |-> IF cut \/ col.identity THEN "" ELSE buildDefault(col, typUpper),
         references |-> IF cut \/ ~hasReferences(col) THEN NoFk
                        ELSE [table |-> col.references.table,
                              column |-> col.references.column,
                              onDelete |-> IF col.references.onDelete = "" THEN "CASCADE"
                                           ELSE col.references.onDelete,
                              onUpdate |-> IF col.references.onUpdate = "" THEN "CASCADE"
                                           ELSE col.references.onUpdate]]

(***************************************************************************)
(* Statements on tables, as PostgreSQL executes them                       *)
(***************************************************************************)
pgUdtName(t) ==
    CASE t \in {"INT", "INTEGER"} -> "int4"
      [] t = "TEXT" -> "text"
      [] t = "UUID" -> "uuid"
      [] t = "TIMESTAMPTZ" -> "timestamptz"
      [] t = "UUID[]" -> "_uuid"
      [] t = "TEXT[]" -> "_text"
      [] OTHER -> t

\* a foreign key needs a unique or primary-key column to point at
fkTargetOk(d, self, ref) ==
    \E tbl \in Range(d.tables) \cup {self} :
        /\ tbl.name = ref.table
        /\ \E c \in Range(tbl.columns) : c.name = ref.column /\ (c.pk \/ c.unique)

\* PostgreSQL rejects the fragment: unknown type, unknown function, bad foreign key
fragmentRejected(d, self, frag) ==
    \/ frag.isEnum /\ ~enumExistsIn(d, frag.type)
    \/ baseType(frag.type) \notin BUILTIN_SCALARS /\ ~frag.isEnum
    \/ frag.default \in {"int()", "throw"}
    \/ frag.references.table # "" /\ ~fkTargetOk(d, self, frag.references)

\* the column a fragment creates; withRows: the table holds rows already
pgColumn(frag, withRows) ==
    [name |-> frag.name,
     data_type |-> IF frag.isEnum THEN "USER-DEFINED" ELSE pgDataType(frag.type),
     udt_name |-> IF frag.isEnum THEN frag.type ELSE pgUdtName(frag.type),
     notnull |-> frag.primaryKey \/ frag.notNull,
     unique |-> frag.unique,
     pk |-> frag.primaryKey,
     column_default |-> IF frag.default = "NULL" THEN "" ELSE frag.default,
     fk |-> frag.references,
     nulls |-> withRows /\ frag.default \in {"", "NULL"}]

\* the column a CHECK expression of the model reads
checkColumn(def) == "age"

fragmentCheck(table, frag) ==
    IF frag.check = "" THEN {}
    ELSE {[tbl |-> table, col |-> frag.name, on |-> checkColumn(frag.check), def |-> frag.check]}

\* CREATE TABLE IF NOT EXISTS "table" (fragments)
createTable(s, table, frags) ==
    IF s.thrown \/ tableExistsIn(s.db, table) THEN s
    ELSE LET cols == [i \in DOMAIN frags |-> pgColumn(frags[i], FALSE)]
             self == [name |-> table, columns |-> cols]
         IN  IF \/ \E i \in DOMAIN frags : fragmentRejected(s.db, self, frags[i])
                \/ Cardinality({i \in DOMAIN cols : cols[i].pk}) > 1
                \/ frags = <<>>
             THEN throw(s)
             ELSE emit(s, [s.db EXCEPT !.tables = Append(@,
                              [name |-> table, rows |-> FALSE, columns |-> cols,
                               checks |-> UNION {fragmentCheck(table, frags[i]) : i \in DOMAIN frags},
                               indexes |-> {}, triggers |-> {}])],
                       Event("CREATE TABLE", table, "", FALSE))

\* ALTER TABLE "table" ADD COLUMN fragment
addColumn(s, table, frag) ==
    IF s.thrown THEN s
    ELSE IF ~tableExistsIn(s.db, table) THEN throw(s)
    ELSE LET tbl == getTable(s.db, table)
             col == pgColumn(frag, tbl.rows)
         IN  IF \/ HasName(tbl.columns, frag.name)
                \/ fragmentRejected(s.db, tbl, frag)
                \/ col.pk /\ \E c \in Range(tbl.columns) : c.pk
                \/ col.notnull /\ col.nulls
             THEN throw(s)
             ELSE emit(s, putTable(s.db, [tbl EXCEPT !.columns = Append(@, col),
                                                     !.checks = @ \cup fragmentCheck(table, frag)]),
                       Event("ADD COLUMN", table, frag.name, tbl.rows))

\* some foreign key of the database points at table.column
isReferenced(d, table, column) ==
    \E tbl \in Range(d.tables) : \E c \in Range(tbl.columns) :
        c.fk.table = table /\ c.fk.column = column

\* ALTER TABLE "table" DROP COLUMN "name"
dropColumn(s, table, name) ==
    IF s.thrown THEN s
    ELSE IF ~tableExistsIn(s.db, table) THEN throw(s)
    ELSE LET tbl == getTable(s.db, table) IN
         IF ~HasName(tbl.columns, name) \/ isReferenced(s.db, table, name) THEN throw(s)
         ELSE emit(s, putTable(s.db, [tbl EXCEPT
                          !.columns = RemoveName(@, name),
                          !.checks = {k \in @ : k.on # name},
                          !.indexes = {k \in @ : k.on # name}]),
                   Event("DROP COLUMN", table, name, tbl.rows))

\* the foreign keys of the database that point at table.old point at table.new
retargetColumn(d, table, old, new) ==
    [d EXCEPT !.tables = [i \in DOMAIN @ |-> [@[i] EXCEPT !.columns =
        [j \in DOMAIN @ |->
            IF @[j].fk.table = table /\ @[j].fk.column = old
            THEN [@[j] EXCEPT !.fk.column = new] ELSE @[j]]]]]

\* ALTER TABLE "table" RENAME COLUMN "old" TO "new": constraints and indexes
\* keep their names and follow the column
renameColumn(s, table, old, new) ==
    IF s.thrown THEN s
    ELSE IF ~tableExistsIn(s.db, table) THEN throw(s)
    ELSE LET tbl == getTable(s.db, table) IN
         IF ~HasName(tbl.columns, old) \/ HasName(tbl.columns, new) THEN throw(s)
         ELSE LET i == IndexOfName(tbl.columns, old)
                  t2 == [tbl EXCEPT
                           !.columns[i].name = new,
                           !.checks = {IF k.on = old THEN [k EXCEPT !.on = new] ELSE k : k \in @},
                           !.indexes = {IF k.on = old THEN [k EXCEPT !.on = new] ELSE k : k \in @}]
              IN  emit(s, retargetColumn(putTable(s.db, t2), table, old, new),
                       Event("RENAME COLUMN", table, old, tbl.rows))

\* the first primary-key column of a table, "" when it has none (getPrimaryKey)
getPrimaryKey(d, table) ==
    LET cols == getTable(d, table).columns
        pks == {i \in DOMAIN cols : cols[i].pk}
    IN  IF pks = {} THEN ""
        ELSE cols[CHOOSE i \in pks : \A j \in pks : i <= j].name

\* one ALTER TABLE statement on a column: the column as upd(tbl, col) leaves it,
\* rejected when the column is missing or PostgreSQL refuses (rejected)
alterOne(s, table, name, rejected(_, _), upd(_, _), op) ==
    IF s.thrown THEN s
    ELSE IF ~tableExistsIn(s.db, table) THEN throw(s)
    ELSE LET tbl == getTable(s.db, table) IN
         IF ~HasName(tbl.columns, name) THEN throw(s)
         ELSE LET col == getColumn(tbl, name) IN
              IF rejected(tbl, col) THEN throw(s)
              ELSE emit(s, putTable(s.db, putColumn(tbl, upd(tbl, col))),
                        Event(op, table, name, tbl.rows))

\* ALTER TABLE .. DROP CONSTRAINT <primary key>
dropPrimaryKey(s, table, name) ==
    alterOne(s, table, name,
             LAMBDA tbl, col : ~col.pk \/ isReferenced(s.db, table, name),
             LAMBDA tbl, col : [col EXCEPT !.pk = FALSE],
             "DROP PRIMARY KEY")

\* ALTER TABLE .. ADD PRIMARY KEY (name)
addPrimaryKey(s, table, name) ==
    alterOne(s, table, name,
             LAMBDA tbl, col : col.nulls \/ \E c \in Range(tbl.columns) : c.pk,
             LAMBDA tbl, col : [col EXCEPT !.pk = TRUE, !.notnull = TRUE],
             "ADD PRIMARY KEY")

\* ALTER TABLE .. ALTER COLUMN name DROP DEFAULT
dropDefault(s, table, name) ==
    alterOne(s, table, name,
             LAMBDA tbl, col : FALSE,
             LAMBDA tbl, col : [col EXCEPT !.column_default = ""],
             "DROP DEFAULT")

\* ALTER TABLE .. ALTER COLUMN name SET DEFAULT expr
setDefault(s, table, name, expr) ==
    alterOne(s, table, name,
             LAMBDA tbl, col : expr \in {"int()", "throw"},
             LAMBDA tbl, col : [col EXCEPT !.column_default =
                                                 IF expr = "NULL" THEN "" ELSE expr],
             "SET DEFAULT")

\* ALTER TABLE .. DROP CONSTRAINT IF EXISTS "<table>_<name>_check"
dropCheckIfExists(s, table, name) ==
    IF s.thrown THEN s
    ELSE IF ~tableExistsIn(s.db, table) THEN throw(s)
    ELSE LET tbl == getTable(s.db, table)
             hit == {k \in tbl.checks : k.tbl = table /\ k.col = name}
         IN  IF hit = {} THEN s
             ELSE emit(s, putTable(s.db, [tbl EXCEPT !.checks = @ \ hit]),
                       Event("DROP CHECK", table, name, tbl.rows))

\* ALTER TABLE .. ADD CONSTRAINT "<table>_<name>_check" CHECK (def)
addCheck(s, table, name, def) ==
    IF s.thrown THEN s
    ELSE IF ~tableExistsIn(s.db, table) THEN throw(s)
    ELSE LET tbl == getTable(s.db, table) IN
         IF \/ def = "throw"
            \/ \E k \in tbl.checks : k.tbl = table /\ k.col = name
         THEN throw(s)
         ELSE emit(s, putTable(s.db, [tbl EXCEPT !.checks = @ \cup
                          {[tbl |-> table, col |-> name, on |-> checkColumn(def), def |-> def]}]),
                   Event("ADD CHECK", table, name, tbl.rows))

\* ALTER TABLE .. ALTER COLUMN name TYPE t USING NULL::t; t is a canonical type name
alterType(s, table, name, t) ==
    LET isEnum == t \notin (BUILTIN_SCALARS \cup {"JSON"}) IN
    alterOne(s, table, name,
             LAMBDA tbl, col : \/ isEnum /\ ~enumExistsIn(s.db, t)
                               \/ isArrayType(t)
                               \/ col.column_default # ""
                               \/ col.fk.table # ""
                               \/ isReferenced(s.db, table, name)
                               \/ tbl.rows /\ col.notnull,
             LAMBDA tbl, col : [col EXCEPT
                                  !.data_type = IF isEnum THEN "USER-DEFINED" ELSE pgDataType(t),
                                  !.udt_name = IF isEnum THEN t ELSE pgUdtName(t),
                                  !.nulls = tbl.rows],
             "ALTER TYPE")

\* ALTER TABLE .. ALTER COLUMN name DROP NOT NULL
dropNotNull(s, table, name) ==
    alterOne(s, table, name,
             LAMBDA tbl, col : col.pk,
             LAMBDA tbl, col : [col EXCEPT !.notnull = FALSE],
             "DROP NOT NULL")

\* ALTER TABLE .. ALTER COLUMN name SET NOT NULL
setNotNull(s, table, name) ==
    alterOne(s, table, name,
             LAMBDA tbl, col : col.nulls,
             LAMBDA tbl, col : [col EXCEPT !.notnull = TRUE],
             "SET NOT NULL")

\* ALTER TABLE .. ADD UNIQUE (name)
addUnique(s, table, name) ==
    alterOne(s, table, name,
             LAMBDA tbl, col : FALSE,
             LAMBDA tbl, col : [col EXCEPT !.unique = TRUE],
             "ADD UNIQUE")

\* ALTER TABLE .. DROP CONSTRAINT <unique constraint of name>
dropUnique(s, table, name) ==
    alterOne(s, table, name,
             LAMBDA tbl, col : ~col.unique \/ (~col.pk /\ isReferenced(s.db, table, name)),
             LAMBDA tbl, col : [col EXCEPT !.unique = FALSE],
             "DROP UNIQUE")

\* ALTER TABLE .. DROP CONSTRAINT <foreign key of name>
dropForeignKey(s, table, name) ==
    alterOne(s, table, name,
             LAMBDA tbl, col : col.fk.table = "",
             LAMBDA tbl, col : [col EXCEPT !.fk = NoFk],
             "DROP FOREIGN KEY")

\* ALTER TABLE .. ADD CONSTRAINT .. FOREIGN KEY (name) REFERENCES ..
addForeignKey(s, table, name, ref) ==
    alterOne(s, table, name,
             LAMBDA tbl, col : \/ col.fk.table # ""
                               \/ ~fkTargetOk(s.db, tbl, ref)
                               \/ ref.onDelete \notin VALID_FK_ACTIONS
                               \/ ref.onUpdate \notin VALID_FK_ACTIONS,
             LAMBDA tbl, col : [col EXCEPT !.fk = ref],
             "ADD FOREIGN KEY")

\* CREATE INDEX "<table>_<name>_idx" ON "table"("name")
createIndex(s, table, name) ==
    IF s.thrown THEN s
    ELSE IF ~tableExistsIn(s.db, table) THEN throw(s)
    ELSE LET tbl == getTable(s.db, table) IN
         IF \/ ~HasName(tbl.columns, name)
            \/ \E t \in Range(s.db.tables) : \E k \in t.indexes : k.tbl = table /\ k.col = name
         THEN throw(s)
         ELSE emit(s, putTable(s.db, [tbl EXCEPT !.indexes = @ \cup
                          {[tbl |-> table, col |-> name, on |-> name]}]),
                   Event("CREATE INDEX", table, name, tbl.rows))

\* DROP INDEX "<idx.tbl>_<idx.col>_idx", an index of the table named table
dropIndex(s, table, idx) ==
    IF s.thrown THEN s
    ELSE IF ~tableExistsIn(s.db, table) THEN throw(s)
    ELSE LET tbl == getTable(s.db, table) IN
         IF idx \notin tbl.indexes THEN throw(s)
         ELSE emit(s, putTable(s.db, [tbl EXCEPT !.indexes = @ \ {idx}]),
                   Event("DROP INDEX", table, idx.col, tbl.rows))

(***************************************************************************)
(* diffTable and its phases.  A phase takes and returns the context        *)
(* x = [s, existing, processed, ok]: the session, the Map existing (a      *)
(* sequence of rows in insertion order, name being the key), the runtime   *)
(* columns and the phase's verdict.                                        *)
(***************************************************************************)
\* the information_schema.columns rows of the table
readColumns(d, table) ==
    IF ~tableExistsIn(d, table) THEN <<>>
    ELSE LET cols == getTable(d, table).columns IN
         [i \in DOMAIN cols |->
            [name |-> cols[i].name, data_type |-> cols[i].data_type,
             udt_name |-> cols[i].udt_name, notnull |-> cols[i].notnull,
             column_default |-> cols[i].column_default]]

\* batchCounts: [isNull, total]; fails: the count query fails (a statement timeout,
\* say) and the catch gives null
batchCounts(d, table, fails) ==
    IF fails \/ ~tableExistsIn(d, table) THEN [isNull |-> TRUE, total |-> 0]
    ELSE [isNull |-> FALSE, total |-> IF getTable(d, table).rows THEN 1 ELSE 0]

\* the guard with its test removed: no table is taken to hold rows
tableHasDataNever(counts) == FALSE

\* (counts?.total ?? 0) > 0
tableHasData(counts) == (IF counts.isNull THEN 0 ELSE counts.total) > 0

\* base + "[]"
arrayOf(base) ==
    CASE base = "UUID" -> "UUID[]"
      [] base = "TEXT" -> "TEXT[]"
      [] OTHER -> base

\* udt_name.replace(/^_/, "")
stripUnderscore(u) ==
    CASE u = "_uuid" -> "uuid"
      [] u = "_text" -> "text"
      [] OTHER -> u

dbCanonicalType(r) ==
    IF r.data_type = "ARRAY" THEN arrayOf(canonicalType(stripUnderscore(r.udt_name)))
    ELSE IF r.data_type = "USER-DEFINED" THEN canonicalType(r.udt_name)
    ELSE canonicalType(r.data_type)

canonicalTypeWithArray(t) ==
    IF isArrayType(t) THEN arrayOf(canonicalType(baseType(t)))
    ELSE canonicalType(t)

failPhase(x) == [x EXCEPT !.ok = FALSE]

\* the filter without its test: every model-only column is a candidate
renameCandidatesAny(x, missingInDB, oldType) == missingInDB

\* missingInDB.filter(newName => the model column has the old column's type)
renameCandidates(x, missingInDB, oldType) ==
    SelectSeq(missingInDB, LAMBDA n :
        /\ HasName(x.processed, n)
        /\ canonicalTypeWithArray(x.processed[IndexOfName(x.processed, n)].type)
             = canonicalTypeWithArray(oldType))

RECURSIVE renameLoop(_, _, _, _)
\* 1. RENAME: r = [x, missingInModel, missingInDB]; olds is the copy being iterated
renameLoop(r, table, olds, i) ==
    IF i > Len(olds) \/ r.x.s.thrown \/ ~r.x.ok THEN r
    ELSE IF ~HasName(r.x.existing, olds[i]) THEN renameLoop(r, table, olds, i + 1)
    ELSE LET row == r.x.existing[IndexOfName(r.x.existing, olds[i])] IN
         The({ IF Len(candidates) # 1 THEN renameLoop(r, table, olds, i + 1)
               ELSE IF HasName(r.x.existing, candidates[1])
                    THEN [r EXCEPT !.x = failPhase(@)]
               ELSE The({ renameLoop(
                            IF s2.thrown THEN [r EXCEPT !.x.s = s2]
                            ELSE [x |-> [r.x EXCEPT
                                           !.s = s2,
                                           !.existing = Append(RemoveName(@, olds[i]),
                                                          [row EXCEPT !.name = candidates[1]]),
                                           !.processed[IndexOfName(r.x.processed, candidates[1])].renamed = TRUE],
                                  missingInModel |-> RemoveValue(r.missingInModel, olds[i]),
                                  missingInDB |-> RemoveValue(r.missingInDB, candidates[1])],
                            table, olds, i + 1)
                        : s2 \in {renameColumn(r.x.s, table, olds[i], candidates[1])} })
             : candidates \in {renameCandidates(r.x, r.missingInDB, dbCanonicalType(row))} })

RECURSIVE addLoop(_, _, _, _, _)
\* 2. ADD COLUMNS
addLoop(x, table, missingInDB, hasData, i) ==
    IF i > Len(missingInDB) \/ x.s.thrown \/ ~x.ok THEN x
    ELSE LET col == x.processed[IndexOfName(x.processed, missingInDB[i])] IN
         IF col.virtual THEN addLoop(x, table, missingInDB, hasData, i + 1)
         ELSE IF hasData /\ col.notNull = "true" /\ col.default = ""
              THEN failPhase(x)
              ELSE addLoop([x EXCEPT !.s = addColumn(@, table, buildColumnSQL(col))],
                           table, missingInDB, hasData, i + 1)

RECURSIVE dropLoop(_, _, _, _, _)
\* 3. DROP COLUMNS
dropLoop(x, table, missingInModel, hasData, i) ==
    IF i > Len(missingInModel) \/ x.s.thrown \/ ~x.ok THEN x
    ELSE IF ~hasData
         THEN dropLoop([x EXCEPT !.s = dropColumn(@, table, missingInModel[i])],
                       table, missingInModel, hasData, i + 1)
         ELSE failPhase(x)

alterColumn(x, table, counts) ==
    LET missingInModel == SelectSeq(Names(x.existing),
                                    LAMBDA n : ~SeqContains(Names(x.processed), n))
        missingInDB == SelectSeq(Names(x.processed), LAMBDA n : ~HasName(x.existing, n))
    IN  The({ dropLoop(addLoop(r.x, table, r.missingInDB, tableHasData(counts), 1),
                       table, r.missingInModel, tableHasData(counts), 1)
            : r \in {renameLoop([x |-> x, missingInModel |-> missingInModel,
                                 missingInDB |-> missingInDB], table, missingInModel, 1)} })

\* for (const col of processed) body; a thrown statement or a failed verdict ends the loop
forEachColumn(x, body(_, _)) ==
    LET f[k \in 0..Len(x.processed)] ==
            IF k = 0 THEN x
            ELSE LET p == f[k - 1] IN
                 IF p.s.thrown \/ ~p.ok THEN p ELSE body(p, p.processed[k])
    IN  f[Len(x.processed)]

withSession(x, s2) == [x EXCEPT !.s = s2]

alterPrimaryKey(x, table, counts) ==
    LET hasData == tableHasData(counts)
        dbPK == getPrimaryKey(x.s.db, table)
        modelPKs == SelectSeq(x.processed, LAMBDA c : c.primaryFlag)
    IN  IF x.s.thrown \/ ~x.ok THEN x     \* an earlier phase ended the diff
        ELSE IF x.s.aborted THEN withSession(x, throw(x.s))   \* await getPrimaryKey
        ELSE IF Len(modelPKs) > 1 THEN failPhase(x)
        ELSE IF dbPK # "" /\ Len(modelPKs) = 1 /\ dbPK = modelPKs[1].name THEN x
        ELSE IF dbPK # "" /\ Len(modelPKs) = 0
             THEN IF hasData THEN failPhase(x)
                  ELSE withSession(x, dropPrimaryKey(x.s, table, dbPK))
        ELSE IF dbPK = "" /\ Len(modelPKs) = 1
             THEN withSession(x, addPrimaryKey(x.s, table, modelPKs[1].name))
        ELSE IF dbPK # "" /\ Len(modelPKs) = 1 /\ dbPK # modelPKs[1].name
             THEN failPhase(x)
        ELSE x

\* canonicalDbType of alterColumnTypes
canonicalDbType(row) ==
    IF row.data_type = "ARRAY" THEN arrayOf(canonicalType(stripUnderscore(row.udt_name)))
    ELSE IF row.data_type = "timestamp with time zone" THEN "TIMESTAMPTZ"
    ELSE IF row.data_type = "timestamp without time zone" THEN "TIMESTAMP"
    ELSE IF row.data_type = "USER-DEFINED" THEN canonicalType(row.udt_name)
    ELSE canonicalType(row.data_type)

alterColumnTypes(x, table, counts) ==
    LET enumTypes == {canonicalType(e.name) : e \in Range(x.s.db.enums)}
        step(y, col) ==
            IF col.virtual \/ ~HasName(y.existing, col.name) THEN y
            ELSE LET row == y.existing[IndexOfName(y.existing, col.name)] IN
                 The({ IF desired = canonicalDbType(row) THEN y
                       ELSE IF canonicalType(baseType(desired)) # baseType(desired)
                               /\ baseType(desired) \notin enumTypes
                            THEN failPhase(y)
                       ELSE IF tableHasData(counts) THEN failPhase(y)
                       ELSE withSession(y,
                              alterType(
                                dropCheckIfExists(
                                  IF row.column_default # ""
                                  THEN dropDefault(y.s, table, col.name) ELSE y.s,
                                  table, col.name),
                                table, col.name, desired))
                     : desired \in {IF isArrayType(col.type)
                                    THEN arrayOf(canonicalType(baseType(col.type)))
                                    ELSE canonicalType(baseType(col.type))} })
    IN  forEachColumn(x, step)

alterColumnNullity(x, table, counts) ==
    LET hasData == tableHasData(counts)
        step(y, col) ==
            IF col.virtual \/ col.primaryFlag \/ ~HasName(y.existing, col.name) THEN y
            ELSE LET row == y.existing[IndexOfName(y.existing, col.name)]
                     modelNN == col.notNull = "true"
                     dbNN == row.notnull
                 IN  IF modelNN = dbNN THEN y
                     ELSE IF ~modelNN
                          THEN withSession(y, dropNotNull(y.s, table, col.name))
                     ELSE IF hasData /\ col.default = "" THEN failPhase(y)
                     ELSE withSession(y, setNotNull(y.s, table, col.name))
    IN  forEachColumn(x, step)

\* def === null, or the trimmed lower-case string is "int()" or "uuid()"
isAllowedUniqueDefault(def) == def \in {"null", "int()", "uuid()"}

\* getUniqueConstraints: the columns that carry a unique constraint
getUniqueConstraints(d, table) ==
    {c.name : c \in {k \in Range(getTable(d, table).columns) : k.unique}}

alterColumnUnique(x, table, counts) ==
    LET dbUniques == getUniqueConstraints(x.s.db, table)
        hasData == tableHasData(counts)
        step(y, col) ==
            IF col.virtual \/ col.primaryFlag THEN y
            ELSE LET wantsUnique == col.unique = "true"
                     hasUnique == col.name \in dbUniques
                 IN  IF wantsUnique = hasUnique THEN y
                     ELSE IF wantsUnique
                          THEN IF hasData /\ ~isAllowedUniqueDefault(col.default)
                               THEN failPhase(y)
                               ELSE withSession(y, addUnique(y.s, table, col.name))
                     ELSE withSession(y, dropUnique(y.s, table, col.name))
    IN  forEachColumn(x, step)

\* getForeignKeys: the columns that carry a foreign key
getForeignKeys(d, table) ==
    {c.name : c \in {k \in Range(getTable(d, table).columns) : k.fk.table # ""}}

alterColumnReferences(x, table) ==
    LET fks == getForeignKeys(x.s.db, table)
        step(y, col) ==
            IF ~col.renamed \/ ~hasReferences(col) \/ col.name \notin fks THEN y
            ELSE LET ref == [table |-> col.references.table,
                             column |-> col.references.column,
                             onDelete |-> IF col.references.onDelete = "" THEN "NO ACTION"
                                          ELSE col.references.onDelete,
                             onUpdate |-> IF col.references.onUpdate = "" THEN "NO ACTION"
                                          ELSE col.references.onUpdate]
                 IN  withSession(y, addForeignKey(dropForeignKey(y.s, table, col.name),
                                                  table, col.name, ref))
    IN  forEachColumn(x, step)

\* pg_get_constraintdef of a check constraint created from the SQL def
pgGetConstraintdef(def) ==
    CASE def = "(age >= 18)" -> "CHECK ((age >= 18))"
      [] def = "(age >= 21)" -> "CHECK ((age >= 21))"
      [] OTHER -> def

\* strip CHECK ( .. ), strip one pair of outer parentheses, fold space and case
normalizeCheck(sql) ==
    CASE sql \in {"CHECK ((age >= 18))", "(age >= 18)"} -> "age >= 18"
      [] sql \in {"CHECK ((age >= 21))", "(age >= 21)"} -> "age >= 21"
      [] OTHER -> sql

alterColumnCheck(x, table) ==
    LET checks == getTable(x.s.db, table).checks
        \* the normalized definition of the constraint <table>_<col>_check, "" when absent
        dbChecksGet(col) ==
            IF \E k \in checks : k.tbl = table /\ k.col = col
            THEN normalizeCheck(pgGetConstraintdef(
                     (CHOOSE k \in checks : k.tbl = table /\ k.col = col).def))
            ELSE ""
        step(y, col) ==
            IF col.virtual THEN y
            ELSE IF col.check # "" /\ parseCheck(col.check) = "throw"
                 THEN withSession(y, throw(y.s))
            ELSE LET modelCheck == IF col.check # "" THEN normalizeCheck(parseCheck(col.check))
                                   ELSE ""
                     dbCheck == dbChecksGet(col.name)
                 IN  IF modelCheck # "" /\ dbCheck = ""
                     THEN withSession(y, addCheck(y.s, table, col.name, parseCheck(col.check)))
                     ELSE IF modelCheck = "" /\ dbCheck # ""
                          THEN withSession(y, dropCheckIfExists(y.s, table, col.name))
                     ELSE IF modelCheck # "" /\ dbCheck # "" /\ modelCheck # dbCheck
                          THEN withSession(y, addCheck(dropCheckIfExists(y.s, table, col.name),
                                                       table, col.name, parseCheck(col.check)))
                     ELSE y
    IN  forEachColumn(x, step)

\* Phase 8 (default): add, drop or update DEFAULT per column; an identity
\* sentinel contributes no DEFAULT
alterColumnDefault(x, table) ==
    LET step(y, col) ==
            IF col.virtual \/ ~HasName(getTable(y.s.db, table).columns, col.name) THEN y
            ELSE LET desired == IF col.default \in {"int()", "null"} THEN ""
                                ELSE buildDefault(col, col.type)
                     current == getColumn(getTable(y.s.db, table), col.name).column_default
                 IN  IF desired = current \/ col.default = "int()" THEN y
                     ELSE IF desired = ""
                          THEN withSession(y, dropDefault(y.s, table, col.name))
                     ELSE withSession(y, setDefault(y.s, table, col.name, desired))
    IN  forEachColumn(x, step)

\* the phases of diffTable in order; a phase hands on unchanged the context of
\* a diff that a phase before it has ended
diffTable(s, table, processed, fails) ==
    alterColumnDefault(
      alterColumnCheck(
        alterColumnReferences(
          alterColumnUnique(
            alterColumnNullity(
              alterColumnTypes(
                alterPrimaryKey(
                  alterColumn([s |-> IF fails THEN abort(s) ELSE s,
                               existing |-> readColumns(s.db, table),
                               processed |-> processed, ok |-> TRUE],
                              table, batchCounts(s.db, table, fails)),
                  table, batchCounts(s.db, table, fails)),
                table, batchCounts(s.db, table, fails)),
              table, batchCounts(s.db, table, fails)),
            table, batchCounts(s.db, table, fails)),
          table),
        table),
      table)

(***************************************************************************)
(* indexMigrations, and the migrate method of a model runtime              *)
(***************************************************************************)
RECURSIVE dropStale(_, _, _)
\* DROP STALE: the indexes <table>_*_idx of the table that the model does not list
dropStale(s, table, stale) ==
    IF stale = {} \/ s.thrown THEN s
    ELSE LET idx == CHOOSE k \in stale : TRUE
         IN  dropStale(dropIndex(s, table, idx), table, stale \ {idx})

RECURSIVE createMissing(_, _, _, _, _, _)
\* CREATE MISSING: an index on a column the table does not have throws
createMissing(s, table, modelIndexes, existingIndexes, dbCols, i) ==
    IF i > Len(modelIndexes) \/ s.thrown THEN s
    ELSE LET col == modelIndexes[i] IN
         IF ~SeqContains(dbCols, col) THEN throw(s)
         ELSE createMissing(
                IF \E k \in existingIndexes : k.tbl = table /\ k.col = col THEN s
                ELSE createIndex(s, table, col),
                table, modelIndexes, existingIndexes, dbCols, i + 1)

\* idxName.startsWith(`${table}_pkey`) for the index <table>_<col>_idx
startsWithPkey(col) == col \in {"pkey"}

indexMigrations(s, table, modelIndexes) ==
    IF s.thrown THEN s
    ELSE IF s.aborted THEN throw(s)
    ELSE LET existingIndexes == IF tableExistsIn(s.db, table)
                                THEN getTable(s.db, table).indexes ELSE {}
             stale == {k \in existingIndexes :
                          /\ k.tbl = table
                          /\ ~startsWithPkey(k.col)
                          /\ ~SeqContains(modelIndexes, k.col)}
             s1 == dropStale(s, table, stale)
             dbCols == Names(readColumns(s1.db, table))
         IN  createMissing(s1, table, modelIndexes, existingIndexes, dbCols, 1)

\* ensureUpdatedAtTrigger: create the trigger unless it is there; errors are swallowed
ensureUpdatedAtTrigger(s, table) ==
    IF s.thrown \/ ~tableExistsIn(s.db, table) THEN s
    ELSE LET tbl == getTable(s.db, table) IN
         IF table \in tbl.triggers THEN s
         ELSE [s EXCEPT !.db = putTable(s.db, [tbl EXCEPT !.triggers = @ \cup {table}])]

\* the non-empty fragments of the runtime's columns (sql.columns)
columnsSQL(processed) ==
    LET frags == [i \in DOMAIN processed |-> buildColumnSQL(processed[i])]
    IN  SelectSeq(frags, LAMBDA f : ~f.empty)

\* runtime.migrate(client): [s, processed, ok, blocked]; ok is the returned
\* boolean, blocked tells that diffTable returned false
runtimeMigrate(s, model, fails) ==
    IF model.createIsEmpty
    THEN [s |-> s, processed |-> model.columns, ok |-> FALSE, blocked |-> FALSE]
    ELSE IF ~tableExistsIn(s.db, model.table)
    THEN The({ [s |-> s3, processed |-> model.columns, ok |-> ~s3.thrown, blocked |-> FALSE]
             : s3 \in {indexMigrations(
                         ensureUpdatedAtTrigger(
                           createTable(s, model.table, columnsSQL(model.columns)),
                           model.table),
                         model.table, model.indexes)} })
    \* if (diffMessages) messages.push(...): a false result is not looked at
    ELSE The({ The({ [s |-> s3, processed |-> x.processed, ok |-> ~s3.thrown,
                      blocked |-> ~x.ok]
                   : s3 \in {indexMigrations(ensureUpdatedAtTrigger(x.s, model.table),
                                             model.table, model.indexes)} })
             : x \in {diffTable(s, model.table, model.columns, fails)} })

(***************************************************************************)
(* validateAndSortModels                                                   *)
(***************************************************************************)
findModel(ms, table) == IF HasName([i \in DOMAIN ms |-> [name |-> ms[i].table]], table)
                        THEN IndexOfName([i \in DOMAIN ms |-> [name |-> ms[i].table]], table)
                        ELSE 0

\* String(name).toLowerCase() on the column names of the model
lowerName(n) == IF n = "Email" THEN "email" ELSE n

\* what the body of the reference loop does with one column:
\*   err: an error is pushed; assigned: ref.onDelete / ref.onUpdate are assigned;
\*   virtual: __virtual is set; linked: the edge and the relation are recorded
refStep(ms, m, col) ==
    LET ref == col.references
        none == [err |-> FALSE, assigned |-> FALSE, virtual |-> FALSE, linked |-> FALSE]
        stop == [none EXCEPT !.err = TRUE]
    IN  IF ~hasReferences(col) THEN none
        ELSE IF ref.table = "" \/ ref.column = "" THEN stop
        ELSE IF findModel(ms, ref.table) = 0 THEN stop
        ELSE LET target == ms[findModel(ms, ref.table)] IN
             IF ~HasName(target.columns, ref.column) THEN stop
             ELSE LET targetCol == target.columns[IndexOfName(target.columns, ref.column)]
                      relation == normalizeRelation(ref.relation)
                      onDelete == IF ref.onDelete # "" THEN ref.onDelete ELSE "CASCADE"
                      onUpdate == IF ref.onUpdate # "" THEN ref.onUpdate ELSE "CASCADE"
                      badAction == onDelete \notin VALID_FK_ACTIONS \/ onUpdate \notin VALID_FK_ACTIONS
                      after == [none EXCEPT !.err = badAction, !.assigned = TRUE]
                      late == [after EXCEPT !.err = TRUE]
                 IN  IF relation = "null" THEN stop
                     ELSE IF relation = "ONE-TO-ONE" /\ col.unique = "false" THEN stop
                     ELSE IF relation \in {"ONE-TO-MANY", "ONE-TO-ONE"} /\ isArrayType(col.type)
                          THEN late
                     ELSE IF baseType(col.type) # baseType(targetCol.type) THEN late
                     ELSE IF relation = "MANY-TO-MANY" /\ ~isArrayType(col.type) THEN late
                     ELSE IF relation = "MANY-TO-MANY" /\
                             Cardinality({i \in DOMAIN m.columns :
                                 lowerName(m.columns[i].name) = lowerName(col.name)}) > 1
                          THEN late
                     ELSE [after EXCEPT !.virtual = relation = "MANY-TO-MANY", !.linked = TRUE]

\* the loop without its assignments: the references stay as declared
refColumnAsDeclared(ms, m, col) ==
    [col EXCEPT !.virtual = @ \/ refStep(ms, m, col).virtual]

\* the column as the reference loop leaves it
refColumn(ms, m, col) ==
    LET r == refStep(ms, m, col) IN
    [col EXCEPT !.references.onDelete = IF r.assigned /\ @ = "" THEN "CASCADE" ELSE @,
                !.references.onUpdate = IF r.assigned /\ @ = "" THEN "CASCADE" ELSE @,
                !.virtual = @ \/ r.virtual]

\* _relations.outgoing of a model
outgoingOf(ms, m) ==
    LET linked == SelectSeq(m.columns, LAMBDA c : refStep(ms, m, c).linked)
    IN  [i \in DOMAIN linked |->
            [relation |-> normalizeRelation(linked[i].references.relation),
             fromTable |-> m.table, toTable |-> linked[i].references.table,
             column |-> linked[i].name,
             isSelf |-> m.table = linked[i].references.table]]

RECURSIVE edgesOf(_, _)
\* the edges target -> model of the graph, in insertion order
edgesOf(ms, i) ==
    IF i > Len(ms) THEN <<>>
    ELSE LET out == SelectSeq(outgoingOf(ms, ms[i]), LAMBDA r : ~r.isSelf)
         IN  [k \in DOMAIN out |-> <<out[k].toTable, ms[i].table>>] \o edgesOf(ms, i + 1)

\* graph.get(n): the successors of n in insertion order, each once
RECURSIVE successors(_, _, _)
successors(edges, n, seen) ==
    IF edges = <<>> THEN <<>>
    ELSE LET e == Head(edges) IN
         IF e[1] = n /\ ~SeqContains(seen, e[2])
         THEN <<e[2]>> \o successors(Tail(edges), n, Append(seen, e[2]))
         ELSE successors(Tail(edges), n, seen)

RECURSIVE relax(_, _, _)
\* the inner loop of the sort: decrement the successors, queue those that reach 0
relax(st, outs, i) ==
    IF i > Len(outs) THEN st
    ELSE LET v == outs[i]
             d == st.inDegree[v] - 1
         IN  relax([st EXCEPT !.inDegree[v] = d,
                              !.q = IF d = 0 THEN Append(@, v) ELSE @],
                   outs, i + 1)

RECURSIVE kahn(_, _)
\* while (q.length): st = [q, order, inDegree]
kahn(st, edges) ==
    IF st.q = <<>> THEN st.order
    ELSE LET n == Head(st.q)
             st1 == [st EXCEPT !.q = Tail(@), !.order = Append(@, n)]
         IN  kahn(relax(st1, successors(edges, n, <<>>), 1), edges)

\* no sort: the tables in the order of their declaration
topoOrderDeclared(nodes, edges) == nodes

\* the order of the topological sort over the nodes (tables in model order)
topoOrder(nodes, edges) ==
    LET nodeSet == Range(nodes)
        distinct == {<<u, v>> \in nodeSet \X nodeSet : SeqContains(edges, <<u, v>>)}
        inDegree == [n \in nodeSet |-> Cardinality({e \in distinct : e[2] = n})]
        q == SelectSeq(nodes, LAMBDA n : inDegree[n] = 0)
    IN  kahn([q |-> q, order |-> <<>>, inDegree |-> inDegree], edges)

\* nodes: a Set, so a table declared twice is one node
RECURSIVE dedupe(_, _)
dedupe(seq, seen) ==
    IF seq = <<>> THEN <<>>
    ELSE IF SeqContains(seen, Head(seq)) THEN dedupe(Tail(seq), seen)
    ELSE <<Head(seq)>> \o dedupe(Tail(seq), Append(seen, Head(seq)))

\* the residual test removed: no order is taken to be short
isCyclicNever(order, nodes) == FALSE

\* order.length !== nodes.size
isCyclic(order, nodes) == Len(order) # Len(nodes)

\* [models, errors, sorted]: the models as the function leaves them (mutated in
\* place), whether it reports errors, and the sorted list (<<>> with errors)
validateAndSortModels(ms) ==
    LET mutated == [i \in DOMAIN ms |->
                      [ms[i] EXCEPT
                         !.columns = [j \in DOMAIN @ |-> refColumn(ms, ms[i], @[j])],
                         !.outgoing = outgoingOf(ms, ms[i])]]
        refErrors == \E i \in DOMAIN ms : \E j \in DOMAIN ms[i].columns :
                        refStep(ms, ms[i], ms[i].columns[j]).err
        nodes == dedupe([i \in DOMAIN ms |-> ms[i].table], <<>>)
        order == topoOrder(nodes, edgesOf(ms, 1))
        cyclic == isCyclic(order, nodes)
    IN  [models |-> mutated,
         errors |-> refErrors \/ cyclic,
         sorted |-> IF refErrors \/ cyclic THEN <<>>
                    ELSE [k \in DOMAIN order |-> mutated[findModel(mutated, order[k])]]]

(***************************************************************************)
(* buildJunctionTables                                                     *)
(***************************************************************************)
\* a.localeCompare(b) on the table names of the model
tableRank(t) ==
    CASE t = "accounts" -> 1
      [] t = "ghost" -> 2
      [] t = "post" -> 3
      [] t = "users" -> 4
      [] OTHER -> 5

sortedPair(a, b) == IF tableRank(a) <= tableRank(b) THEN <<a, b>> ELSE <<b, a>>

\* `${snake(t1)}_${snake(t2)}_junction`
junctionName(t1, t2) ==
    CASE t1 = "post" /\ t2 = "users" -> "post_users_junction"
      [] t1 = "accounts" /\ t2 = "post" -> "accounts_post_junction"
      [] t1 = "post" /\ t2 = "post" -> "post_post_junction"
      [] OTHER -> "junction"

\* `${snake(t)}_id`
idColumnName(t) ==
    CASE t = "post" -> "post_id"
      [] t = "users" -> "users_id"
      [] t = "accounts" -> "accounts_id"
      [] OTHER -> "id"

\* getPrimaryKeyType: "throw" when the model has no column named by primaryKey
getPrimaryKeyType(ms, t) ==
    LET k == findModel(ms, t) IN
    IF k = 0 THEN "throw"
    ELSE IF ~HasName(ms[k].columns, ms[k].primaryKey) THEN "throw"
    ELSE ms[k].columns[IndexOfName(ms[k].columns, ms[k].primaryKey)].type

\* the plan of one MANY-TO-MANY relation
junctionPlan(ms, tableA, rel) ==
    LET pair == sortedPair(tableA, rel.toTable)
        t1 == pair[1]
        t2 == pair[2]
    IN  [table |-> junctionName(t1, t2),
         \* `${snake(rel.column)}_source_id` and `.._target_id` for a self relation
         colA |-> IF ~rel.isSelf THEN idColumnName(t1)
                  ELSE IF rel.column = "tags" THEN "tags_source_id" ELSE "source_id",
         colB |-> IF ~rel.isSelf THEN idColumnName(t2)
                  ELSE IF rel.column = "tags" THEN "tags_target_id" ELSE "target_id",
         t1 |-> t1, t2 |-> t2,
         pkA |-> IF findModel(ms, t1) = 0 THEN "id" ELSE ms[findModel(ms, t1)].primaryKey,
         pkB |-> IF findModel(ms, t2) = 0 THEN "id" ELSE ms[findModel(ms, t2)].primaryKey,
         pkTypeA |-> getPrimaryKeyType(ms, t1),
         pkTypeB |-> getPrimaryKeyType(ms, t2)]

RECURSIVE plansOf(_, _, _)
\* the plans of the relations rels of table tableA, skipping the junctions seen
plansOf(ms, tableA, rels) ==
    IF rels = <<>> THEN <<>>
    ELSE IF Head(rels).relation # "MANY-TO-MANY" THEN plansOf(ms, tableA, Tail(rels))
    ELSE <<junctionPlan(ms, tableA, Head(rels))>> \o plansOf(ms, tableA, Tail(rels))

RECURSIVE allPlans(_, _)
allPlans(ms, i) ==
    IF i > Len(ms) THEN <<>>
    ELSE plansOf(ms, ms[i].table, ms[i].outgoing) \o allPlans(ms, i + 1)

RECURSIVE firstPerTable(_, _)
\* seen.has(junction): the first plan of each junction table
firstPerTable(plans, seen) ==
    IF plans = <<>> THEN <<>>
    ELSE IF Head(plans).table \in seen THEN firstPerTable(Tail(plans), seen)
    ELSE <<Head(plans)>> \o firstPerTable(Tail(plans), seen \cup {Head(plans).table})

\* [plans, thrown]: getPrimaryKeyType throws while the first plan that needs it is built
buildJunctionTables(ms) ==
    LET plans == firstPerTable(allPlans(ms, 1), {})
    IN  [plans |-> plans,
         thrown |-> \E i \in DOMAIN plans :
                       plans[i].pkTypeA = "throw" \/ plans[i].pkTypeB = "throw"]

\* CREATE TABLE IF NOT EXISTS "<junction>" (..) and its two CREATE INDEX IF NOT EXISTS
createJunction(s, plan) ==
    IF s.thrown \/ tableExistsIn(s.db, plan.table) THEN s
    ELSE LET jcol(name, type, t, pk) ==
                 [name |-> name, data_type |-> pgDataType(type), udt_name |-> pgUdtName(type),
                  notnull |-> TRUE, unique |-> FALSE, pk |-> TRUE, column_default |-> "",
                  fk |-> [table |-> t, column |-> pk, onDelete |-> "CASCADE",
                          onUpdate |-> "CASCADE"],
                  nulls |-> FALSE]
             self == [name |-> plan.table, columns |-> <<>>]
         IN  IF \/ plan.pkTypeA \notin BUILTIN_SCALARS
                \/ plan.pkTypeB \notin BUILTIN_SCALARS
                \/ ~fkTargetOk(s.db, self, [table |-> plan.t1, column |-> plan.pkA])
                \/ ~fkTargetOk(s.db, self, [table |-> plan.t2, column |-> plan.pkB])
             THEN throw(s)
             ELSE emit(s, [s.db EXCEPT !.tables = Append(@,
                       [name |-> plan.table, rows |-> FALSE,
                        columns |-> <<jcol(plan.colA, plan.pkTypeA, plan.t1, plan.pkA),
                                      jcol(plan.colB, plan.pkTypeB, plan.t2, plan.pkB)>>,
                        checks |-> {},
                        indexes |-> {[tbl |-> plan.table, col |-> plan.colA, on |-> plan.colA],
                                     [tbl |-> plan.table, col |-> plan.colB, on |-> plan.colB]},
                        triggers |-> {}])],
                       Event("CREATE TABLE", plan.table, "", FALSE))

RECURSIVE createJunctions(_, _)
createJunctions(s, plans) ==
    IF plans = <<>> \/ s.thrown THEN s
    ELSE createJunctions(createJunction(s, Head(plans)), Tail(plans))

(***************************************************************************)
(* resetDatabase, and the table rename of Morm.migrate                     *)
(***************************************************************************)
\* DROP TABLE .. CASCADE for every table, DROP TYPE .. CASCADE for every enum
resetDatabase(s) ==
    [s EXCEPT !.db = EmptyDb,
              !.log = @ \o [i \in DOMAIN s.db.tables |->
                               Event("DROP TABLE", s.db.tables[i].name, "", s.db.tables[i].rows)]
                        \o [i \in DOMAIN s.db.enums |->
                               Event("DROP TYPE", s.db.enums[i].name, "", FALSE)]]

\* ALTER TABLE "old" RENAME TO "new": foreign keys follow the table, the names of
\* its constraints, indexes and triggers stay
renameTable(s, old, new) ==
    IF s.thrown THEN s
    ELSE IF ~tableExistsIn(s.db, old) \/ tableExistsIn(s.db, new) THEN throw(s)
    ELSE LET k == tableIdx(s.db, old)
             d1 == [s.db EXCEPT !.tables[k].name = new]
             d2 == [d1 EXCEPT !.tables = [i \in DOMAIN @ |-> [@[i] EXCEPT !.columns =
                       [j \in DOMAIN @ |-> IF @[j].fk.table = old
                                           THEN [@[j] EXCEPT !.fk.table = new] ELSE @[j]]]]]
         IN  emit(s, d2, Event("RENAME TABLE", old, new, s.db.tables[k].rows))

\* TABLE RENAME DETECTION of Morm.migrate
renameDetection(s, ms) ==
    LET dbTables == Names(s.db.tables)
        modelTables == [i \in DOMAIN ms |-> ms[i].table]
        removed == SelectSeq(dbTables, LAMBDA t : ~SeqContains(modelTables, t))
        added == SelectSeq(modelTables, LAMBDA t : ~SeqContains(dbTables, t))
    IN  IF Len(removed) = 1 /\ Len(added) = 1
        THEN renameTable(s, removed[1], added[1])
        ELSE s

(***************************************************************************)
(* Declarations: what the application registers before it calls migrate.   *)
(* Each is one deviation from the base declaration, so that a restart with *)
(* another declaration exercises one kind of change.                       *)
(***************************************************************************)
idColumn == [Col("id", "UUID") EXCEPT !.primary = TRUE, !.default = "uuid()"]
emailColumn == Col("email", "TEXT")
refColumnTo(name, type, table, relation) ==
    [Col(name, type) EXCEPT !.references =
        [table |-> table, column |-> "id", relation |-> relation,
         onDelete |-> "", onUpdate |-> ""]]

ROLE == [name |-> "ROLE", values |-> <<"ADMIN", "STUDENT">>]

Model(table, columns) == [table |-> table, columns |-> columns, indexes |-> <<>>]
users == Model("users", <<idColumn, emailColumn>>)
usersWith(col) == Model("users", <<idColumn, col>>)
Declaration(enums, ms) == [enums |-> enums, models |-> ms]

Declarations ==
    { Declaration(<<ROLE>>, <<users>>),
      \* a column renamed, replaced by one of another type, retyped
      Declaration(<<ROLE>>, <<usersWith(Col("email_address", "TEXT"))>>),
      Declaration(<<ROLE>>, <<usersWith(Col("nick", "INT"))>>),
      Declaration(<<ROLE>>, <<Model("users", <<idColumn, Col("nick", "TEXT"),
                                               Col("email_address", "TEXT")>>)>>),
      Declaration(<<ROLE>>, <<usersWith(Col("email", "INT"))>>),
      \* a column renamed and a NOT NULL column without default added
      Declaration(<<ROLE>>, <<Model("users", <<idColumn, Col("email_address", "TEXT"),
                                 [Col("age", "INT") EXCEPT !.notNull = "true"]>>)>>),
      \* an integer column whose default is the identity sentinel
      Declaration(<<ROLE>>, <<Model("users", <<idColumn, emailColumn,
                                 [Col("n", "INT") EXCEPT !.default = "int()"]>>)>>),
      \* two columns whose names differ in letter case only
      Declaration(<<ROLE>>, <<Model("users", <<idColumn, emailColumn, Col("Email", "TEXT")>>)>>),
      \* constraints of a column
      Declaration(<<ROLE>>, <<usersWith([emailColumn EXCEPT !.notNull = "true"])>>),
      Declaration(<<ROLE>>, <<usersWith([emailColumn EXCEPT !.unique = "true"])>>),
      Declaration(<<ROLE>>, <<usersWith([emailColumn EXCEPT !.unique = "true",
                                                            !.default = "null"])>>),
      Declaration(<<ROLE>>, <<Model("users", <<idColumn, emailColumn,
                                 [Col("age", "INT") EXCEPT !.check = "age >= 18"]>>)>>),
      Declaration(<<ROLE>>, <<Model("users", <<[idColumn EXCEPT !.primary = FALSE],
                                               emailColumn>>)>>),
      \* the primary key moved to another column
      Declaration(<<ROLE>>, <<Model("users", <<[idColumn EXCEPT !.primary = FALSE],
                                 [emailColumn EXCEPT !.primary = TRUE]>>)>>),
      \* an enum column, an invalid default, an index
      Declaration(<<ROLE>>, <<Model("users", <<idColumn, emailColumn,
                                 [Col("role", "ROLE") EXCEPT !.default = "ADMIN"]>>)>>),
      Declaration(<<ROLE>>, <<Model("users", <<idColumn, emailColumn,
                                 [Col("n", "INT") EXCEPT !.default = "abc"]>>)>>),
      Declaration(<<ROLE>>, <<[users EXCEPT !.indexes = <<"email">>]>>),
      Declaration(<<ROLE>>, <<[users EXCEPT !.indexes = <<"missing">>]>>),
      \* a column named pkey, with an index and without
      Declaration(<<ROLE>>, <<[Model("users", <<idColumn, emailColumn, Col("pkey", "TEXT")>>)
                                 EXCEPT !.indexes = <<"pkey">>]>>),
      Declaration(<<ROLE>>, <<Model("users", <<idColumn, emailColumn, Col("pkey", "TEXT")>>)>>),
      \* the registry
      Declaration(<<[ROLE EXCEPT !.values = <<"ADMIN", "TEACHER", "STUDENT">>]>>, <<users>>),
      Declaration(<<[ROLE EXCEPT !.values = <<"ADMIN">>]>>, <<users>>),
      Declaration(<<[ROLE EXCEPT !.name = "STATUS"]>>, <<users>>),
      \* a value removed from an enum that a column uses
      Declaration(<<[ROLE EXCEPT !.values = <<"ADMIN">>]>>,
                  <<Model("users", <<idColumn, emailColumn,
                                     [Col("role", "ROLE") EXCEPT !.default = "ADMIN"]>>)>>),
      Declaration(<<>>, <<users>>),
      Declaration(<<ROLE, [ROLE EXCEPT !.values = <<"ADMIN">>]>>, <<users>>),
      \* the table renamed
      Declaration(<<ROLE>>, <<Model("accounts", <<idColumn, emailColumn>>)>>),
      \* relations
      Declaration(<<ROLE>>, <<Model("post", <<idColumn, Col("user_id", "UUID")>>), users>>),
      \* the same two models declared in the other order
      Declaration(<<ROLE>>, <<users, Model("post", <<idColumn, Col("user_id", "UUID")>>)>>),
      Declaration(<<ROLE>>, <<Model("post", <<idColumn,
                                 refColumnTo("user_id", "UUID", "users", "1:m")>>), users>>),
      Declaration(<<ROLE>>, <<Model("post", <<idColumn,
                                 refColumnTo("user_id", "UUID", "users", "1:1")>>), users>>),
      \* a foreign-key action that PostgreSQL does not have
      Declaration(<<ROLE>>, <<Model("post", <<idColumn,
                                 [refColumnTo("user_id", "UUID", "users", "1:m")
                                    EXCEPT !.references.onDelete = "DELETE"]>>), users>>),
      \* the referring column renamed
      Declaration(<<ROLE>>, <<Model("post", <<idColumn,
                                 refColumnTo("author_id", "UUID", "users", "1:m")>>), users>>),
      Declaration(<<ROLE>>, <<Model("post", <<idColumn,
                                 refColumnTo("tags", "UUID[]", "users", "m:m")>>), users>>),
      Declaration(<<ROLE>>, <<Model("post", <<Col("title", "TEXT"),
                                 refColumnTo("tags", "UUID[]", "users", "m:m")>>), users>>),
      Declaration(<<ROLE>>, <<users, Model("post", <<idColumn,
                                 refColumnTo("g", "UUID", "ghost", "1:m")>>)>>),
      \* a model added to two models that have a junction table
      Declaration(<<ROLE>>, <<Model("post", <<idColumn,
                                 refColumnTo("tags", "UUID[]", "users", "m:m")>>), users,
                              Model("accounts", <<idColumn, emailColumn>>)>>),
      \* an array column, which a later declaration replaces by a MANY-TO-MANY column
      Declaration(<<ROLE>>, <<Model("post", <<idColumn, Col("labels", "UUID[]")>>), users>>),
      \* a MANY-TO-MANY relation declared from both sides
      Declaration(<<ROLE>>, <<Model("post", <<idColumn,
                                 refColumnTo("tags", "UUID[]", "users", "m:m")>>),
                              Model("users", <<idColumn, emailColumn,
                                 refColumnTo("posts", "UUID[]", "post", "m:m")>>)>>),
      \* two models that refer to each other
      Declaration(<<ROLE>>, <<Model("post", <<idColumn,
                                 refColumnTo("user_id", "UUID", "users", "1:m")>>),
                              Model("users", <<idColumn, emailColumn,
                                 refColumnTo("post_id", "UUID", "post", "1:m")>>)>>) }

\* new Morm(); morm.enums(..); morm.model(..) for each model
buildModels(d) == [i \in DOMAIN d.models |-> createModelRuntime(d.models[i])]
buildRegistry(d) == register(EmptyRegistry, d.enums)

(***************************************************************************)
(* Morm.init and the instance cache.  An instance is named by the call     *)
(* that constructed it (new Morm() in call i is instance i).  A call runs  *)
(* without interruption up to its next await.                              *)
(***************************************************************************)
Callers == 1..MaxInits
ConnectionStrings == {"postgres://localhost/app", "postgres://localhost/shop"}

\* a call of init that has not been made
NoCall == [at |-> "none", connectionString |-> "", callback |-> FALSE, instance |-> 0,
           outcome |-> "none", returned |-> 0]

\* no init call made, the cache empty
NoInit ==
    /\ instances = [u \in ConnectionStrings |-> 0]
    /\ inits = [i \in Callers |-> NoCall]
    /\ pools = {}

(***************************************************************************)
(* The pooled client of a transaction, and a call of Morm.transaction      *)
(***************************************************************************)
\* a client fresh from the pool: PostgreSQL's defaults, both timeouts off
ServerSettings == [lock_timeout |-> 0, statement_timeout |-> 0]

\* options.transaction of the constructor when it is not given; an option that is
\* undefined is the empty sequence, an option with value v is <<v>>
NoTransactionOptions == [maxWait |-> <<>>, timeout |-> <<>>]

\* a call of transaction that has not been made
NoTxnCall == [at |-> "none", configured |-> NoTransactionOptions,
              maxWait |-> 0, timeout |-> 0, fn |-> "none",
              connected |-> FALSE, completed |-> FALSE, committed |-> FALSE,
              raised |-> <<>>, released |-> 0, outcome |-> "none", thrown |-> "none"]

\* parseCheck has not been called
NoCheck == check = [input |-> <<>>, sql |-> "none"]

\* no transaction call made, no client configured
NoTransaction ==
    /\ settings = ServerSettings
    /\ txn = NoTxnCall

(***************************************************************************)
(* The engine                                                              *)
(***************************************************************************)
Idle == [at |-> "idle", i |-> 0]
At(label) == [at |-> label, i |-> 0]

Init ==
    /\ declared \in Declarations
    /\ models = buildModels(declared)
    /\ enumRegistry = buildRegistry(declared)
    /\ migrating = FALSE
    /\ db = EmptyDb
    /\ tx = EmptyDb
    /\ inTx = FALSE
    /\ pc = Idle
    /\ options = [reset |-> FALSE]
    /\ result = "none"
    /\ log = <<>>
    /\ db0 = EmptyDb
    /\ notes = {}
    /\ refused = "none"
    /\ calls = 0
    /\ redeclared = FALSE
    /\ NoInit
    /\ NoCheck
    /\ NoTransaction

\* the check removed: no call is refused
refusesNever(m) == FALSE

\* if (this._migrating) return false
refuses(m) == m

\* migrate(option) enters: _migrating = true, the options are merged
Call(reset) ==
    /\ calls < MaxCalls
    /\ ~refuses(migrating)
    /\ migrating' = TRUE
    /\ options' = [reset |-> reset]
    /\ pc' = At("reset")
    /\ db0' = db
    /\ log' = <<>>
    \* "replay": the call before had this declaration, returned true after it
    \* committed with no phase blocked, and left this database
    /\ notes' = IF result = "true" /\ "committed" \in notes
                    /\ notes \cap {"blocked", "written"} = {}
                 THEN {"replay"} ELSE {}
    /\ result' = "none"
    /\ calls' = calls + 1
    /\ UNCHANGED <<models, enumRegistry, db, tx, inTx, refused, declared, redeclared>>
    /\ UNCHANGED initVars
    /\ UNCHANGED check
    /\ UNCHANGED txnVars

\* migrate() called while _migrating is set: return false at once
CallRefused ==
    /\ calls < MaxCalls
    /\ refuses(migrating)
    /\ refused' = "false"
    /\ calls' = calls + 1
    /\ UNCHANGED <<models, enumRegistry, migrating, db, tx, inTx, pc, options, result,
                   log, db0, notes, declared, redeclared>>
    /\ UNCHANGED initVars
    /\ UNCHANGED check
    /\ UNCHANGED txnVars

\* the call ends and hands r to its caller; clear tells whether _migrating is cleared
Return(r, clear, note) ==
    /\ pc' = Idle
    /\ result' = r
    /\ migrating' = IF clear THEN FALSE ELSE migrating
    /\ notes' = notes \cup note

\* if (options.reset) await resetDatabase(this.pool)
StepReset ==
    /\ pc.at = "reset"
    /\ \E s \in {IF options.reset THEN resetDatabase(Session(db)) ELSE Session(db)} :
       /\ db' = s.db
       /\ tx' = s.db
       /\ log' = log \o s.log
    /\ pc' = At("enums")
    /\ UNCHANGED <<models, enumRegistry, migrating, inTx, options, result, db0, notes,
                   refused, calls, declared, redeclared>>
    /\ UNCHANGED initVars
    /\ UNCHANGED check
    /\ UNCHANGED txnVars

\* the registry errors abort; otherwise migrateEnumsGlobal(this.pool, ..)
StepEnums ==
    /\ pc.at = "enums"
    /\ IF hasErrors(enumRegistry)
       THEN /\ enumRegistry' = clearErrors(enumRegistry)
            /\ Return("false", TRUE, {"enumErrors"})
            /\ UNCHANGED <<db, tx, log>>
       ELSE \E s \in {migrateEnumsGlobal(Session(db), enumRegistry.enumsByName)} :
            /\ db' = s.db
            /\ tx' = s.db
            /\ log' = log \o s.log
            /\ UNCHANGED enumRegistry
            /\ IF s.thrown
               THEN Return("threw", FALSE, {"poolThrew"})
               ELSE /\ pc' = At("validate")
                    /\ UNCHANGED <<result, migrating, notes>>
    /\ UNCHANGED <<models, inTx, options, db0, refused, calls, declared, redeclared>>
    /\ UNCHANGED initVars
    /\ UNCHANGED check
    /\ UNCHANGED txnVars

\* HARD MODEL VALIDATION: a runtime whose sql.create is "" aborts
StepValidate ==
    /\ pc.at = "validate"
    /\ IF \E i \in DOMAIN models : models[i].createIsEmpty
       THEN Return("false", TRUE, {"invalid"})
       ELSE /\ pc' = At("rename")
            /\ UNCHANGED <<result, migrating, notes>>
    /\ UNCHANGED <<models, enumRegistry, db, tx, inTx, options, log, db0, refused, calls,
                   declared, redeclared>>
    /\ UNCHANGED initVars
    /\ UNCHANGED check
    /\ UNCHANGED txnVars

\* TABLE RENAME DETECTION, through the pool
StepRename ==
    /\ pc.at = "rename"
    /\ \E s \in {renameDetection(Session(db), models)} :
       /\ db' = s.db
       /\ tx' = s.db
       /\ log' = log \o s.log
       /\ IF s.thrown
          THEN Return("threw", FALSE, {"poolThrew"})
          ELSE /\ pc' = At("relations")
               /\ UNCHANGED <<result, migrating, notes>>
    /\ UNCHANGED <<models, enumRegistry, inTx, options, db0, refused, calls, declared,
                   redeclared>>
    /\ UNCHANGED initVars
    /\ UNCHANGED check
    /\ UNCHANGED txnVars

\* RELATION VALIDATION: errors abort, otherwise the models are put in sorted order
StepRelations ==
    /\ pc.at = "relations"
    /\ \E relRes \in {validateAndSortModels(models)} :
       IF relRes.errors
       THEN /\ models' = relRes.models
            /\ Return("false", TRUE, {"relationErrors"})
       ELSE /\ models' = relRes.sorted
            /\ pc' = At("begin")
            /\ UNCHANGED <<result, migrating, notes>>
    /\ UNCHANGED <<enumRegistry, db, tx, inTx, options, log, db0, refused, calls, declared,
                   redeclared>>
    /\ UNCHANGED initVars
    /\ UNCHANGED check
    /\ UNCHANGED txnVars

\* pool.connect(); BEGIN; CREATE EXTENSION IF NOT EXISTS pgcrypto
StepBegin ==
    /\ pc.at = "begin"
    /\ tx' = db
    /\ inTx' = TRUE
    /\ pc' = IF models = <<>> THEN At("junctions") ELSE [at |-> "models", i |-> 1]
    \* the client comes from the pool; migrate sends it no SET LOCAL
    /\ settings' = ServerSettings
    /\ UNCHANGED <<models, enumRegistry, migrating, db, options, result, log, db0, notes,
                   refused, calls, declared, redeclared>>
    /\ UNCHANGED initVars
    /\ UNCHANGED check
    /\ UNCHANGED txn

\* one iteration of: ok = await model.migrate(client, options); if (!ok) ROLLBACK, return false
StepModel(fails) ==
    /\ pc.at = "models"
    /\ fails => tableExistsIn(tx, models[pc.i].table)
    /\ \E r \in {runtimeMigrate(Session(tx), models[pc.i], fails)} :
           /\ models' = [models EXCEPT ![pc.i].columns = r.processed]
           /\ log' = log \o r.s.log
           /\ IF ~r.ok
              THEN /\ tx' = db
                   /\ inTx' = FALSE
                   /\ Return("false", TRUE,
                             {"modelThrew", "rolledBack"} \cup
                             (IF r.blocked THEN {"blocked"} ELSE {}) \cup
                             (IF fails THEN {"nullCounts"} ELSE {}))
              ELSE /\ tx' = r.s.db
                   /\ pc' = IF pc.i < Len(models) THEN [pc EXCEPT !.i = @ + 1]
                            ELSE At("junctions")
                   /\ notes' = notes \cup (IF r.blocked THEN {"blocked"} ELSE {}) \cup
                                         (IF fails THEN {"nullCounts"} ELSE {})
                   /\ UNCHANGED <<inTx, result, migrating>>
    /\ UNCHANGED <<enumRegistry, db, options, db0, refused, calls, declared, redeclared>>
    /\ UNCHANGED initVars
    /\ UNCHANGED check
    /\ UNCHANGED txnVars

\* JUNCTION TABLES; what is thrown here is caught by the catch of migrate: ROLLBACK
StepJunctions ==
    /\ pc.at = "junctions"
    /\ \E j \in {buildJunctionTables(models)} :
       \E s \in {IF j.thrown THEN throw(Session(tx))
                 ELSE createJunctions(Session(tx), j.plans)} :
           /\ log' = log \o s.log
           /\ IF s.thrown
              THEN /\ tx' = db
                   /\ inTx' = FALSE
                   /\ notes' = notes \cup {"caught", "rolledBack"}
                   /\ pc' = At("return")
              ELSE /\ tx' = s.db
                   /\ pc' = At("commit")
                   /\ UNCHANGED <<inTx, notes>>
    /\ UNCHANGED <<models, enumRegistry, migrating, db, options, result, db0, refused, calls,
                   declared, redeclared>>
    /\ UNCHANGED initVars
    /\ UNCHANGED check
    /\ UNCHANGED txnVars

\* COMMIT
StepCommit ==
    /\ pc.at = "commit"
    /\ db' = tx
    /\ inTx' = FALSE
    /\ notes' = notes \cup {"committed"}
    /\ pc' = At("return")
    /\ UNCHANGED <<models, enumRegistry, migrating, tx, options, result, log, db0, refused,
                   calls, declared, redeclared>>
    /\ UNCHANGED initVars
    /\ UNCHANGED check
    /\ UNCHANGED txnVars

\* after the try statement: this._migrating = false; return true
StepReturn ==
    /\ pc.at = "return"
    /\ Return("true", TRUE, {})
    /\ UNCHANGED <<models, enumRegistry, db, tx, inTx, options, log, db0, refused, calls,
                   declared, redeclared>>
    /\ UNCHANGED initVars
    /\ UNCHANGED check
    /\ UNCHANGED txnVars

(***************************************************************************)
(* The environment: the application writes rows between migrations, and    *)
(* the process is restarted once with another declaration.                 *)
(***************************************************************************)
\* a row is inserted into an empty table: a nullable column without default holds NULL
InsertRows(t) ==
    /\ pc = Idle
    /\ tableExistsIn(db, t)
    /\ ~getTable(db, t).rows
    /\ \A c \in Range(getTable(db, t).columns) :
          c.fk.table # "" /\ c.notnull => tableHasRows(db, c.fk.table)
    /\ LET tbl == getTable(db, t)
           filled == [tbl EXCEPT !.rows = TRUE,
                                 !.columns = [j \in DOMAIN tbl.columns |->
                                     [tbl.columns[j] EXCEPT !.nulls =
                                         ~tbl.columns[j].notnull /\ tbl.columns[j].column_default = ""]]]
       IN  /\ db' = putTable(db, filled)
           /\ tx' = db'
    /\ notes' = notes \cup {"written"}
    /\ UNCHANGED <<models, enumRegistry, migrating, inTx, pc, options, result, log, db0,
                   refused, calls, declared, redeclared>>
    /\ UNCHANGED initVars
    /\ UNCHANGED check
    /\ UNCHANGED txnVars

\* the process is started again with the declaration d; the database stays
Restart(d) ==
    /\ pc = Idle
    /\ ~redeclared
    /\ calls > 0
    /\ d # declared
    /\ declared' = d
    /\ redeclared' = TRUE
    /\ models' = buildModels(d)
    /\ enumRegistry' = buildRegistry(d)
    /\ migrating' = FALSE
    /\ result' = "none"
    /\ refused' = "none"
    /\ UNCHANGED <<db, tx, inTx, pc, options, log, db0, notes, calls>>
    /\ UNCHANGED initVars
    /\ UNCHANGED check
    /\ UNCHANGED txnVars

TableNames == {"users", "post", "accounts", "post_users_junction"}

Next ==
    \/ \E reset \in BOOLEAN : Call(reset)
    \/ CallRefused
    \/ StepReset
    \/ StepEnums
    \/ StepValidate
    \/ StepRename
    \/ StepRelations
    \/ StepBegin
    \/ \E fails \in BOOLEAN : StepModel(fails)
    \/ StepJunctions
    \/ StepCommit
    \/ StepReturn
    \/ \E t \in TableNames : InsertRows(t)
    \/ \E d \in Declarations : Restart(d)

Spec == Init /\ [][Next]_vars

(***************************************************************************)
(* Properties of Morm.migrate                                              *)
(***************************************************************************)
\* the last call has ended and nothing has written to the database since
Ended == pc = Idle /\ result # "none" /\ "written" \notin notes

\* C1: a migrate call in which an alter phase of a table's diff hit a blocking
\* condition fails (it returns false) and its transaction is rolled back, so no
\* table DDL of that call is committed
C1_BlockedPhaseFailsAndRollsBack ==
    Ended /\ "blocked" \in notes =>
        /\ result = "false"
        /\ "rolledBack" \in notes
        /\ db.tables = db0.tables

\* C2: a migrate call that was aborted, or whose transaction was rolled back,
\* returns false: it neither returns true nor throws
C2_FailedCallReturnsFalse ==
    Ended /\ notes \cap {"enumErrors", "invalid", "relationErrors", "poolThrew",
                         "modelThrew", "caught", "rolledBack"} # {} =>
        result = "false"

\* C3: a migrate call on an engine with a model whose validation failed leaves
\* the database as it was and issues no schema statement
C3_InvalidModelLeavesDatabase ==
    Ended /\ (\E i \in DOMAIN models : models[i].createIsEmpty) =>
        db = db0 /\ log = <<>>

C5_SecondCallRefused ==
    [][migrating /\ calls' = calls + 1 =>
          /\ refused' = "false"
          /\ UNCHANGED <<models, enumRegistry, migrating, db, tx, inTx, pc, options,
                         result, log, db0, notes, declared, redeclared>>]_vars

\* a second call was refused while the first was between two of its steps
C5_RefusedWhileInProgress == refused = "false" /\ migrating /\ pc.at = "models"

\* C6: when the transaction of a call is rolled back, the enum types of the
\* database are what they were before the enum reconciliation of that call
C6_EnumsRolledBackWithTables ==
    Ended /\ "rolledBack" \in notes =>
        db.enums = (IF options.reset THEN <<>> ELSE db0.enums)

\* C7: a call that relation validation aborts has issued no statement before
\* the abort (but those of a reset that the caller asked for)
C7_RelationErrorBeforeAnyDDL ==
    Ended /\ "relationErrors" \in notes =>
        log = (IF options.reset THEN resetDatabase(Session(db0)).log ELSE <<>>)

\* C8: a call that repeats a successful call, with the same declaration on the
\* database that call left, issues no schema statement and leaves the database
C8_ReplayIsNoOp ==
    Ended /\ "replay" \in notes /\ ~options.reset =>
        log = <<>> /\ db = db0

\* the column that a declared column asks for (what its fragment creates)
declaredColumn(c) == pgColumn(buildColumnSQL(c), FALSE)

\* the live table of the model has exactly the declared columns, each with the
\* declared nullability, uniqueness, primary key, default and foreign key
conforms(d, m) ==
    /\ tableExistsIn(d, m.table)
    /\ LET live == getTable(d, m.table).columns
           want == SelectSeq(m.columns, LAMBDA c : ~c.virtual)
       IN  /\ Range(Names(live)) = Range(Names(want))
           /\ \A c \in Range(want) : \A k \in Range(live) :
                 k.name = c.name =>
                    /\ k.notnull = declaredColumn(c).notnull
                    /\ k.unique = declaredColumn(c).unique
                    /\ k.pk = declaredColumn(c).pk
                    /\ k.column_default = declaredColumn(c).column_default
                    /\ k.fk = declaredColumn(c).fk

\* C9: after a call that returned true (having committed, with no phase
\* blocked), the live table of every model conforms to the declaration
C9_TablesEqualDeclaration ==
    Ended /\ result = "true" /\ "committed" \in notes /\ "blocked" \notin notes =>
        \A i \in DOMAIN models : conforms(db, models[i])

\* C10: after a call that returned true, the enum types of the database are the
\* registered enums, each with its values in the declared order, and no other
C10_EnumsEqualRegistry ==
    Ended /\ result = "true" => Range(db.enums) = Range(enumRegistry.enumsByName)

\* model a declares a ONE-TO-ONE or ONE-TO-MANY reference to another model b
refersTo(a, b) ==
    /\ a.table # b.table
    /\ \E c \in Range(a.columns) :
          /\ hasReferences(c)
          /\ c.references.table = b.table
          /\ normalizeRelation(c.references.relation) \in {"ONE-TO-ONE", "ONE-TO-MANY"}

\* C11: the model loop of a call runs over the models with every referenced
\* model before the models that refer to it, and in a call that returned true
\* the CREATE TABLE of a referenced table precedes that of a referring table
C11_TargetsCreatedFirst ==
    /\ pc.at \in {"begin", "models", "junctions", "commit", "return"} =>
          \A i, j \in DOMAIN models : refersTo(models[i], models[j]) => j < i
    /\ Ended /\ result = "true" =>
          \A i, j \in DOMAIN log :
             /\ log[i].op = "CREATE TABLE"
             /\ log[j].op = "CREATE TABLE"
             /\ \E a, b \in Range(models) :
                   a.table = log[i].obj /\ b.table = log[j].obj /\ refersTo(a, b)
             => j < i

\* a call returned true having created users before post, for a declaration
\* that lists post, which refers to users, first
C11_ReferringModelDeclaredFirst ==
    /\ Ended /\ result = "true"
    /\ declared.models[1].table = "post"
    /\ \E a, b \in Range(models) : a.table = "post" /\ b.table = "users" /\ refersTo(a, b)
    /\ \E i, j \in DOMAIN log :
          /\ j < i
          /\ log[i].op = "CREATE TABLE" /\ log[i].obj = "post"
          /\ log[j].op = "CREATE TABLE" /\ log[j].obj = "users"

RECURSIVE reaches(_, _, _, _)
\* a chain of at most n ONE-TO-ONE / ONE-TO-MANY references leads from a to b
reaches(ms, a, b, n) ==
    /\ n > 0
    /\ \/ refersTo(a, b)
       \/ \E c \in Range(ms) : refersTo(a, c) /\ reaches(ms, c, b, n - 1)

\* the references among the models contain a directed cycle
hasCycle(ms) == \E a \in Range(ms) : reaches(ms, a, a, Len(ms))

manyToMany(ms) ==
    UNION { { <<junctionName(sortedPair(ms[i].table, ms[i].outgoing[k].toTable)[1],
                             sortedPair(ms[i].table, ms[i].outgoing[k].toTable)[2]),
                ms[i].outgoing[k]>> :
              k \in {n \in DOMAIN ms[i].outgoing :
                        ms[i].outgoing[n].relation = "MANY-TO-MANY"} } :
            i \in DOMAIN ms }

\* the table is there with two columns, each a foreign key that cascades
isJunction(d, name) ==
    /\ tableExistsIn(d, name)
    /\ Len(getTable(d, name).columns) = 2
    /\ \A c \in Range(getTable(d, name).columns) :
          c.fk.table # "" /\ c.fk.onDelete = "CASCADE" /\ c.fk.onUpdate = "CASCADE"

\* the CREATE TABLE statements of the call that created the table
created(name) == {j \in DOMAIN log : log[j].op = "CREATE TABLE" /\ log[j].obj = name}

\* C13: after a call that returned true, the junction table of every
\* MANY-TO-MANY relation exists under the name of the sorted pair with two
\* cascading foreign keys; the call created it at most once, and a call that
\* repeats the call before it did not create it again
C13_OneJunctionPerRelation ==
    Ended /\ result = "true" =>
        \A r \in manyToMany(models) :
            /\ isJunction(db, r[1])
            /\ Cardinality(created(r[1])) <= 1
            /\ "replay" \in notes /\ ~options.reset => created(r[1]) = {}


\* the call in progress, or the call that ended last, put a column named n on table t
createdColumn(d, t, n) ==
    /\ tableExistsIn(d, t)
    /\ HasName(getTable(d, t).columns, n)
    /\ ~(tableExistsIn(db0, t) /\ HasName(getTable(db0, t).columns, n))

\* C14: a MANY-TO-MANY column is virtual: no migrate call, on a fresh or an existing
\* table, creates a database column of that name on the owning table, be it by
\* CREATE TABLE, by ADD COLUMN or by renaming an existing column to it
C14_VirtualColumnNeverCreated ==
    (pc # Idle \/ result # "none") =>
        \A m \in Range(models) : \A c \in Range(m.columns) :
            isManyToManyColumn(c) =>
                ~createdColumn(db, m.table, c.name) /\ ~createdColumn(tx, m.table, c.name)


\* C18: every migrate call that passes the re-entrancy guard clears the in-progress
\* flag when it ends, whether it returns true, returns false or a database statement
\* fails; a call made after an earlier call has ended is never refused as concurrent
C18_EndedCallClearsFlag ==
    /\ pc = Idle => ~migrating
    /\ pc = Idle => ~ENABLED CallRefused

\* the registry's definition of an enum omits a value that the enum of the database
\* d has, and a column of d uses the type
removedValueInUse(d, reg) ==
    \E e \in Range(reg.enumsByName) :
        /\ HasName(d.enums, e.name)
        /\ valuesNotIn(d.enums[IndexOfName(d.enums, e.name)].values, e.values) # <<>>
        /\ enumUsage(d, e.name) # {}

\* C19: with reset=false, a value removed from an enum that a column uses is a
\* blocking error: migrate returns false and no change made by the call remains
C19_RemovedValueInUseAborts ==
    Ended /\ ~options.reset /\ removedValueInUse(db0, enumRegistry)
        => result = "false" /\ db = db0

\* the statements that a phase holds back on a table with data
GuardedStatements == {"DROP COLUMN", "ALTER TYPE", "DROP PRIMARY KEY", "SET NOT NULL",
                      "ADD UNIQUE"}

\* C20: when the row counts of a table cannot be read (null counts), every alter
\* phase treats the table as having data: it drops no column, changes no column
\* type, drops no primary key, and the NOT NULL and UNIQUE guards apply
C20_NullCountsAssumeData ==
    "nullCounts" \in notes =>
        \A e \in Range(log) :
            e.obj \in TableNames =>
                /\ e.op \notin GuardedStatements
                /\ \A op \in GuardedStatements : e.op # rejectedStatement([e EXCEPT !.op = op]).op

\* the column declares a ONE-TO-ONE reference
isOneToOneColumn(c) ==
    hasReferences(c) /\ normalizeRelation(c.references.relation) = "ONE-TO-ONE"

\* C21: after a migrate call that returned true, whether it created the table or
\* diffed it, a column with a ONE-TO-ONE reference is UNIQUE in the database and is
\* NOT NULL unless its declaration sets notNull:false
C21_OneToOneUniqueNotNull ==
    Ended /\ result = "true" /\ "committed" \in notes =>
        \A m \in Range(models) : \A c \in Range(m.columns) :
            /\ isOneToOneColumn(c)
            /\ tableExistsIn(db, m.table)
            /\ HasName(getTable(db, m.table).columns, c.name)
            => /\ getColumn(getTable(db, m.table), c.name).unique
               /\ c.notNull # "false" => getColumn(getTable(db, m.table), c.name).notnull

\* the name phase as the call in progress runs it on the table of model m in d:
\* the columns only in the database, the columns only in the model, the result
missingInModelOf(d, m) ==
    SelectSeq(Names(readColumns(d, m.table)), LAMBDA n : ~SeqContains(Names(m.columns), n))
missingInDBOf(d, m) ==
    SelectSeq(Names(m.columns), LAMBDA n : ~HasName(readColumns(d, m.table), n))
renamePhase(d, m) ==
    renameLoop([x |-> [s |-> Session(d), existing |-> readColumns(d, m.table),
                       processed |-> m.columns, ok |-> TRUE],
                missingInModel |-> missingInModelOf(d, m),
                missingInDB |-> missingInDBOf(d, m)],
               m.table, missingInModelOf(d, m), 1)

\* canonical type, array-ness included, of a database column and of a model column
oldColumnType(d, m, o) ==
    canonicalTypeWithArray(dbCanonicalType(
        readColumns(d, m.table)[IndexOfName(readColumns(d, m.table), o)]))
newColumnType(m, n) == canonicalTypeWithArray(m.columns[IndexOfName(m.columns, n)].type)

\* the model-only columns that have the type of the database-only column o
sameTypeModelOnly(d, m, o) ==
    {n \in Range(missingInDBOf(d, m)) : newColumnType(m, n) = oldColumnType(d, m, o)}

\* o is the first database-only column of its type: the model-only columns of that
\* type are all still model-only when the loop comes to o
firstOfItsType(d, m, o) ==
    \A j, k \in DOMAIN missingInModelOf(d, m) :
        missingInModelOf(d, m)[k] = o /\ j < k
            => oldColumnType(d, m, missingInModelOf(d, m)[j]) # oldColumnType(d, m, o)

addsNotNullWithoutDefault(d, m) ==
    /\ tableExistsIn(d, m.table)
    /\ tableHasRows(d, m.table)
    /\ \E c \in Range(m.columns) :
          /\ ~c.virtual /\ c.notNull = "true" /\ c.default = ""
          /\ ~HasName(getTable(d, m.table).columns, c.name)
          /\ ~HasName(renamePhase(d, m).x.existing, c.name)

\* C23: adding a NOT NULL column without default to a non-empty table fails without
\* DDL: the migrate call fails, and no DDL statement of the call is applied to that
\* table, renames and additions of other columns of the table included
C23_NotNullAddFailsWithoutDDL ==
    Ended /\ ~options.reset =>
        \A m \in Range(models) :
            addsNotNullWithoutDefault(db0, m) =>
                /\ result \in {"false", "threw"}
                /\ getTable(db, m.table) = getTable(db0, m.table)

\* some reference of the models is refused by the validation of references
referenceErrors(ms) ==
    \E i \in DOMAIN ms : \E j \in DOMAIN ms[i].columns :
        refStep(ms, ms[i], ms[i].columns[j]).err

\* C24: MANY-TO-MANY references create no dependency edges: models whose
\* references are all valid and whose ONE-TO-ONE and ONE-TO-MANY references
\* contain no cycle sort successfully, whatever their MANY-TO-MANY references
C24_ManyToManyNoEdges ==
    pc.at = "relations" /\ ~referenceErrors(models) /\ ~hasCycle(models) =>
        /\ ~validateAndSortModels(models).errors
        /\ Len(validateAndSortModels(models).sorted) = Len(models)

\* the renames that the reconciliation of database d with registry reg detects
enumRenames(d, reg) == detectRenames(d.enums, reg.enumsByName, 1)

\* C25: a registry enum absent from the database whose ordered values equal those
\* of an enum that only the database has is a rename: the call issues no DROP TYPE
\* for the database enum, no statement fails, the enum exists under the registry
\* name afterwards and the columns that used it use it under the new name
C25_EnumRenameKeepsType ==
    Ended /\ ~options.reset /\ "enumErrors" \notin notes =>
        \A r \in Range(enumRenames(db0, enumRegistry)) :
            /\ result # "threw"
            /\ \A e \in Range(log) : ~(e.op = "DROP TYPE" /\ e.obj = r.from)
            /\ enumExistsIn(db, r.to) /\ ~enumExistsIn(db, r.from)
            /\ enumUsage(db0, r.from) \subseteq enumUsage(db, r.to)

\* the diff of model m against database d after its name phase, and after its
\* primary-key phase
namePhase(d, m) ==
    alterColumn([s |-> Session(d), existing |-> readColumns(d, m.table),
                 processed |-> m.columns, ok |-> TRUE],
                m.table, batchCounts(d, m.table, FALSE))
primaryKeyPhase(d, m) == alterPrimaryKey(namePhase(d, m), m.table, batchCounts(d, m.table, FALSE))

\* the names of the columns that model m declares primary
modelPrimary(m) == {c.name : c \in {k \in Range(m.columns) : k.primaryFlag}}

\* C26: on a table with rows the primary-key phase fails without a statement when
\* the database has a primary key and the model declares another primary column or
\* none; on a table without rows the phase succeeds and leaves the primary key on
\* the column the model declares primary, or no primary key when it declares none
C26_PrimaryKeyPhase ==
    pc.at = "models" /\ tableExistsIn(tx, models[pc.i].table)
        /\ namePhase(tx, models[pc.i]).ok /\ ~namePhase(tx, models[pc.i]).s.thrown
        /\ Cardinality(modelPrimary(models[pc.i])) <= 1 =>
    LET m == models[pc.i]
        before == namePhase(tx, m)
        after == primaryKeyPhase(tx, m)
        dbPK == getPrimaryKey(before.s.db, m.table)
    IN  IF tableHasRows(tx, m.table)
        THEN dbPK # "" /\ modelPrimary(m) # {dbPK} => ~after.ok /\ after.s = before.s
        ELSE /\ after.ok
             /\ ~after.s.thrown =>
                   IF modelPrimary(m) = {} THEN getPrimaryKey(after.s.db, m.table) = ""
                   ELSE getPrimaryKey(after.s.db, m.table) \in modelPrimary(m)

\* the diff of model m against database d after its nullity phase, and after its
\* unique phase
nullityPhase(d, m) ==
    alterColumnNullity(alterColumnTypes(primaryKeyPhase(d, m), m.table,
                                        batchCounts(d, m.table, FALSE)),
                       m.table, batchCounts(d, m.table, FALSE))
uniquePhase(d, m) == alterColumnUnique(nullityPhase(d, m), m.table, batchCounts(d, m.table, FALSE))

\* the columns to which the unique phase of model m has to add UNIQUE
addsUnique(d, m) ==
    {c \in Range(m.columns) :
        /\ ~c.virtual /\ ~c.primaryFlag /\ c.unique = "true"
        /\ c.name \notin getUniqueConstraints(nullityPhase(d, m).s.db, m.table)}

\* the defaults that generate unique values
UniqueGenerators == {"uuid()", "int()", "smallint()", "bigint()"}

\* C27: on a table with rows the unique phase adds UNIQUE to a column if and only
\* if the column's default is uuid() or an integer-identity sentinel; when a column
\* to be made unique has another default or none, the phase fails and that column
\* gets no constraint
C27_UniqueOnDataNeedsGenerator ==
    pc.at = "models" /\ tableHasRows(tx, models[pc.i].table)
        /\ nullityPhase(tx, models[pc.i]).ok /\ ~nullityPhase(tx, models[pc.i]).s.thrown =>
    LET m == models[pc.i]
        after == uniquePhase(tx, m)
        refusedColumns == {c \in addsUnique(tx, m) : c.default \notin UniqueGenerators}
    IN  /\ refusedColumns = {} /\ ~after.s.thrown =>
              /\ after.ok
              /\ \A c \in addsUnique(tx, m) :
                    c.name \in getUniqueConstraints(after.s.db, m.table)
        /\ refusedColumns # {} =>
              /\ ~after.ok
              /\ \A c \in refusedColumns :
                    c.name \notin getUniqueConstraints(after.s.db, m.table)

\* C28: the marker __renamed of a model column lasts for the migrate call that
\* renamed the column: a call drops (and recreates) the foreign key of a column
\* only if that call has renamed a column of the table
C28_RenameMarkerLocal ==
    \A e \in Range(log) :
        e.op = "DROP FOREIGN KEY" =>
            \E r \in Range(log) : r.op = "RENAME COLUMN" /\ r.obj = e.obj

\* C29: while a conflicting enum registration is part of the engine's declaration,
\* every migrate call on the engine returns false, and without reset it leaves
\* the enums and tables of the database as they were
C29_EnumErrorsBlockEveryCall ==
    Ended /\ hasErrors(buildRegistry(declared)) =>
        /\ result = "false"
        /\ ~options.reset => db = db0

\* the phase of diffTable that issues a statement; 0 for the statements that two
\* phases issue (DROP DEFAULT: type and default; DROP CHECK: type and check)
phaseOf(op) ==
    CASE op \in {"RENAME COLUMN", "ADD COLUMN", "DROP COLUMN"} -> 1
      [] op \in {"ADD PRIMARY KEY", "DROP PRIMARY KEY"} -> 2
      [] op = "ALTER TYPE" -> 3
      [] op \in {"SET NOT NULL", "DROP NOT NULL"} -> 4
      [] op \in {"ADD UNIQUE", "DROP UNIQUE"} -> 5
      [] op \in {"ADD FOREIGN KEY", "DROP FOREIGN KEY"} -> 6
      [] op = "ADD CHECK" -> 7
      [] op = "SET DEFAULT" -> 8
      [] OTHER -> 0

\* the statements of the log l follow the order of the phases
phasesInOrder(l) ==
    \A i, j \in DOMAIN l :
        i < j /\ phaseOf(l[i].op) > 0 /\ phaseOf(l[j].op) > 0
            => phaseOf(l[i].op) <= phaseOf(l[j].op)

\* C30: the diff of an existing table issues its statements in the order of the
\* phases name, primary key, type, nullity, unique, foreign key, check, default;
\* when a phase fails, the model's migration fails and issues no statement after
\* those of the diff: no later phase and no index migration acts on the table
C30_PhasesInOrderFailureStops ==
    pc.at = "models" /\ tableExistsIn(tx, models[pc.i].table)
        /\ ~models[pc.i].createIsEmpty =>
    LET m == models[pc.i]
        d == diffTable(Session(tx), m.table, m.columns, FALSE)
        r == runtimeMigrate(Session(tx), m, FALSE)
    IN  /\ phasesInOrder(d.s.log)
        /\ ~d.ok => ~r.ok /\ r.s.log = d.s.log

\* the timeouts of an engine built without transaction options: maxWait 2000 ms,
\* timeout 5000 ms
DefaultTimeouts == [lock_timeout |-> 2000, statement_timeout |-> 5000]

\* C31: the transaction in which migrate reconciles the tables runs with
\* lock_timeout and statement_timeout set from the options (2 s and 5 s by
\* default), from before its first statement on
C31_MigrateTransactionHasTimeouts ==
    inTx /\ pc.at \in {"models", "junctions", "commit"} => settings = DefaultTimeouts

\* C32: the sort emits, at every position, the alphabetically first of the tables
\* that are not yet emitted and whose referenced tables are all emitted; the order
\* of tables without references among them does not follow their declaration
C32_AlphabeticalTiebreak ==
    pc.at = "relations" /\ ~validateAndSortModels(models).errors =>
    LET sorted == validateAndSortModels(models).sorted
        order == [k \in DOMAIN sorted |-> sorted[k].table]
        edges == edgesOf(models, 1)
        ready(k, t) ==
            /\ \A j \in 1..(k - 1) : order[j] # t
            /\ \A e \in Range(edges) : e[2] = t => \E j \in 1..(k - 1) : order[j] = e[1]
    IN  \A k \in DOMAIN order : \A t \in Range(order) :
            ready(k, t) => tableRank(order[k]) <= tableRank(t)

\* the references of column c of table t as the application declared them
declaredReferences(t, c) ==
    LET m == CHOOSE k \in Range(declared.models) : k.table = t
    IN  m.columns[IndexOfName(m.columns, c)].references

\* the action that a declared action d stands for
actionOrCascade(d) == IF d = "" THEN "CASCADE" ELSE d

\* the call in progress has created the foreign key of column c of table t: with
\* the table, with the column, or in the foreign-key phase
fkCreatedByCall(t, c) ==
    \E e \in Range(log) :
        /\ e.obj = t
        /\ \/ e.op = "CREATE TABLE"
           \/ e.op \in {"ADD COLUMN", "ADD FOREIGN KEY"} /\ e.col = c

\* C33: a model with a declared FK action outside CASCADE, SET NULL, SET DEFAULT,
\* RESTRICT, NO ACTION fails the validation of relations; every foreign key that
\* a call creates (with CREATE TABLE, with ADD COLUMN, or again in the
\* foreign-key phase for a renamed column) has the declared actions, CASCADE for
\* an action that is not declared
C33_FkActionsValidatedDefaultCascade ==
    /\ pc.at = "relations" =>
          \A m \in Range(models) : \A c \in Range(m.columns) :
              hasReferences(c)
                /\ (actionOrCascade(c.references.onDelete) \notin VALID_FK_ACTIONS
                    \/ actionOrCascade(c.references.onUpdate) \notin VALID_FK_ACTIONS)
              => validateAndSortModels(models).errors
    /\ pc.at \in {"models", "junctions", "commit"} =>
          \A m \in Range(models) : \A c \in Range(m.columns) :
              hasReferences(c) /\ ~c.virtual /\ fkCreatedByCall(m.table, c.name)
                /\ tableExistsIn(tx, m.table)
                /\ HasName(getTable(tx, m.table).columns, c.name)
              => LET fk == getColumn(getTable(tx, m.table), c.name).fk IN
                 fk.table # "" =>
                     /\ fk.onDelete = actionOrCascade(
                           declaredReferences(m.table, c.name).onDelete)
                     /\ fk.onUpdate = actionOrCascade(
                           declaredReferences(m.table, c.name).onUpdate)

\* the call in progress has renamed post.user_id to author_id and its foreign-key
\* phase has created the foreign key again, with ON DELETE CASCADE
C33_RenamedFkRecreatedCascade ==
    /\ pc.at \in {"models", "junctions", "commit"}
    /\ \E e \in Range(log) : e.op = "RENAME COLUMN" /\ e.obj = "post"
    /\ \E e \in Range(log) : e.op = "ADD FOREIGN KEY" /\ e.obj = "post" /\ e.col = "author_id"
    /\ getColumn(getTable(tx, "post"), "author_id").fk.onDelete = "CASCADE"
    /\ declaredReferences("post", "author_id").onDelete = ""

\* C34: the rename of a whole table never takes a junction table that the engine
\* created: no call renames a table that was a junction table when the call began
C34_JunctionNeverRenamed ==
    \A e \in Range(log) : e.op = "RENAME TABLE" => ~isJunction(db0, e.obj)

\* model m declares two columns whose names are equal up to letter case
hasDuplicateColumn(m) ==
    \E i, j \in DOMAIN m.columns :
        i # j /\ lowerName(m.columns[i].name) = lowerName(m.columns[j].name)

\* C35: a declaration in which a model has two columns with the same name up to
\* letter case is rejected, whatever the kind of the columns: the call returns
\* false and issues no statement on the table of that model
C35_DuplicateColumnRejected ==
    Ended =>
        \A m \in Range(declared.models) :
            hasDuplicateColumn(m) =>
                /\ result = "false"
                /\ \A e \in Range(log) : e.obj # m.table

\* the session of runtime.migrate for model m on database d when it reaches the
\* index phase
beforeIndexPhase(d, m) ==
    ensureUpdatedAtTrigger(
        IF tableExistsIn(d, m.table)
        THEN diffTable(Session(d), m.table, m.columns, FALSE).s
        ELSE createTable(Session(d), m.table, columnsSQL(m.columns)),
        m.table)
indexPhase(d, m) == indexMigrations(beforeIndexPhase(d, m), m.table, m.indexes)

\* the columns col for which the table named t has an index <t>_<col>_idx in d
managedIndexes(d, t) == {k.col : k \in {x \in getTable(d, t).indexes : x.tbl = t}}

\* C36: when the index phase of a table succeeds, the indexes of the table that are
\* named <table>_<col>_idx are those of the declared index columns and no other,
\* every declared index column is a column of the table, and the primary key of the
\* table is the one it had before the phase
C36_IndexesExactlyDeclared ==
    pc.at = "models" /\ ~models[pc.i].createIsEmpty
        /\ ~indexPhase(tx, models[pc.i]).thrown =>
    LET m == models[pc.i]
        before == beforeIndexPhase(tx, m).db
        after == indexPhase(tx, m).db
    IN  /\ tableExistsIn(after, m.table)
        /\ managedIndexes(after, m.table) = Range(m.indexes)
        /\ \A c \in Range(m.indexes) : HasName(getTable(after, m.table).columns, c)
        /\ getPrimaryKey(after, m.table) = getPrimaryKey(before, m.table)

\* the identity sentinels, and the integer types they stand for
IdentitySentinels == {"int()", "smallint()", "bigint()"}
sentinelMatches(c) ==
    \/ c.default = "int()" /\ c.type \in {"INT", "INTEGER"}
    \/ c.default = "smallint()" /\ c.type = "SMALLINT"
    \/ c.default = "bigint()" /\ c.type = "BIGINT"

\* C38: a column of a created model whose default is an identity sentinel on the
\* matching integer type is emitted as an identity column (GENERATED ALWAYS AS
\* IDENTITY) without a DEFAULT clause, so that the table of the model can be created
C38_IdentitySentinelEmitted ==
    \A m \in Range(models) :
        ~m.createIsEmpty =>
            /\ \A c \in Range(m.columns) :
                  sentinelMatches(c) =>
                      buildColumnSQL(c).identity /\ buildColumnSQL(c).default = ""
            /\ (\E c \in Range(m.columns) : sentinelMatches(c))
                  /\ Ended /\ db0 = EmptyDb /\ refused = "none"
                  => tableExistsIn(db, m.table)

(***************************************************************************)
(* EnumRegistry on its own: an application calls morm.enums(defs) any      *)
(* number of times before it migrates.  enumRegistry is the registry and   *)
(* declared.enums the definitions handed to it so far, in order; the other *)
(* variables keep their initial values.                                    *)
(***************************************************************************)
MaxDefs == 4

EnumNames == {"ROLE", "STATUS", "role"}
EnumValues == {<<"A">>, <<"A", "B">>, <<"B", "A">>, <<"A|||B">>}
EnumDefs == {[name |-> n, values |-> v] : n \in EnumNames, v \in EnumValues}

InitRegistry ==
    /\ declared = Declaration(<<>>, <<>>)
    /\ models = <<>>
    /\ enumRegistry = EmptyRegistry
    /\ migrating = FALSE
    /\ db = EmptyDb
    /\ tx = EmptyDb
    /\ inTx = FALSE
    /\ pc = Idle
    /\ options = [reset |-> FALSE]
    /\ result = "none"
    /\ log = <<>>
    /\ db0 = EmptyDb
    /\ notes = {}
    /\ refused = "none"
    /\ calls = 0
    /\ redeclared = FALSE
    /\ NoInit
    /\ NoCheck
    /\ NoTransaction

\* morm.enums(defs): this.enumRegistry.register(defs)
Enums(defs) ==
    /\ Len(declared.enums) + Len(defs) <= MaxDefs
    /\ enumRegistry' = register(enumRegistry, defs)
    /\ declared' = [declared EXCEPT !.enums = @ \o defs]
    /\ UNCHANGED <<models, migrating, db, tx, inTx, pc, options, result, log, db0, notes,
                   refused, calls, redeclared>>
    /\ UNCHANGED initVars
    /\ UNCHANGED check
    /\ UNCHANGED txnVars

NextRegistry ==
    \E defs \in {<<e>> : e \in EnumDefs} \cup {<<a, b>> : a \in EnumDefs, b \in EnumDefs} :
        Enums(defs)

SpecRegistry == InitRegistry /\ [][NextRegistry]_vars

\* enumsByName.has(name), enumsByName.get(name)
registryHas(reg, name) == HasName(reg.enumsByName, name)
registryGet(reg, name) == reg.enumsByName[IndexOfName(reg.enumsByName, name)].values

\* C15: registering an existing name with the same ordered values changes nothing
\* and records no error; registering an existing name with other values records an
\* error and keeps the first definition; registering a new name whose ordered values
\* equal those of a registered enum records an error and does not add the name
C15_RegisterRules ==
    [][\A e \in EnumDefs :
         declared'.enums = Append(declared.enums, e) =>
           /\ registryHas(enumRegistry, normName(e.name))
                /\ registryGet(enumRegistry, normName(e.name)) = e.values
              => enumRegistry' = enumRegistry
           /\ registryHas(enumRegistry, normName(e.name))
                /\ registryGet(enumRegistry, normName(e.name)) # e.values
              => /\ Len(enumRegistry'.errors) = Len(enumRegistry.errors) + 1
                 /\ enumRegistry'.enumsByName = enumRegistry.enumsByName
           /\ ~registryHas(enumRegistry, normName(e.name))
                /\ (\E x \in Range(enumRegistry.enumsByName) : x.values = e.values)
              => /\ Len(enumRegistry'.errors) = Len(enumRegistry.errors) + 1
                 /\ enumRegistry'.enumsByName = enumRegistry.enumsByName
                 /\ ~registryHas(enumRegistry', normName(e.name))]_vars

\* a registry that went through the three cases: ROLE registered, registered again
\* unchanged, redefined, and its values registered under another name
C15_AllThreeCases ==
    /\ declared.enums = <<[name |-> "ROLE", values |-> <<"A", "B">>],
                          [name |-> "ROLE", values |-> <<"A", "B">>],
                          [name |-> "ROLE", values |-> <<"B", "A">>],
                          [name |-> "STATUS", values |-> <<"A", "B">>]>>
    /\ enumRegistry.enumsByName = <<[name |-> "ROLE", values |-> <<"A", "B">>]>>
    /\ enumRegistry.errors = <<"redefined", "duplicate values">>

\* the registry mapping (name to ordered values) and the error status
registryView(reg) == [mapping |-> Range(reg.enumsByName), errors |-> hasErrors(reg)]

\* the definitions registered before the last two
beforeLastTwo(defs) == SubSeq(defs, 1, Len(defs) - 2)

\* C16: registration is commutative over distinct names: two definitions with
\* different names registered in either order yield the same registry mapping and
\* the same error status
C16_RegisterCommutes ==
    Len(declared.enums) >= 2 =>
        \A a, b \in EnumDefs :
            /\ declared.enums = beforeLastTwo(declared.enums) \o <<a, b>>
            /\ normName(a.name) # normName(b.name)
            => registryView(enumRegistry)
                 = registryView(register(EmptyRegistry,
                                         beforeLastTwo(declared.enums) \o <<b, a>>))


(***************************************************************************)
(* Morm.init on its own: the application calls init up to MaxInits times,  *)
(* and a call may be made while another is awaiting the database.          *)
(***************************************************************************)
InitInit ==
    /\ declared = Declaration(<<>>, <<>>)
    /\ models = <<>>
    /\ enumRegistry = EmptyRegistry
    /\ migrating = FALSE
    /\ db = EmptyDb
    /\ tx = EmptyDb
    /\ inTx = FALSE
    /\ pc = Idle
    /\ options = [reset |-> FALSE]
    /\ result = "none"
    /\ log = <<>>
    /\ db0 = EmptyDb
    /\ notes = {}
    /\ refused = "none"
    /\ calls = 0
    /\ redeclared = FALSE
    /\ NoInit
    /\ NoCheck
    /\ NoTransaction

\* init(connectionString, options, callback) up to its first await: the cache is
\* looked up; on a miss the instance is constructed and CREATE DATABASE is sent
InitCall(i, connectionString, callback) ==
    /\ inits[i].at = "none"
    /\ inits' = [inits EXCEPT ![i] =
          IF instances[connectionString] # 0
          THEN [at |-> "done", connectionString |-> connectionString,
                callback |-> callback, instance |-> 0,
                outcome |-> "instance", returned |-> instances[connectionString]]
          ELSE [at |-> "ensure", connectionString |-> connectionString,
                callback |-> callback, instance |-> i,
                outcome |-> "none", returned |-> 0]]
    /\ UNCHANGED <<instances, pools, migrateVars, txnVars, check>>

\* CREATE DATABASE answers: created, 42P04 (exists) or another error, which is
\* thrown again and rejects the call; otherwise the probe pool connects
InitEnsureDatabase(i, answer) ==
    /\ inits[i].at = "ensure"
    /\ inits' = [inits EXCEPT ![i] =
          IF answer = "error" THEN [@ EXCEPT !.at = "done", !.outcome = "rejected"]
          ELSE [@ EXCEPT !.at = "connect"]]
    /\ UNCHANGED <<instances, pools, migrateVars, txnVars, check>>

\* the probe connection answers: on success the pool is installed on the instance,
\* the instance is cached and returned; on failure the call gives null to a caller
\* with a callback and rejects otherwise
InitConnect(i, connected) ==
    /\ inits[i].at = "connect"
    /\ IF connected
       THEN /\ pools' = pools \cup {inits[i].instance}
            /\ instances' = [instances EXCEPT ![inits[i].connectionString] = inits[i].instance]
            /\ inits' = [inits EXCEPT ![i] = [@ EXCEPT !.at = "done", !.outcome = "instance",
                                                       !.returned = inits[i].instance]]
       ELSE /\ inits' = [inits EXCEPT ![i] = [@ EXCEPT !.at = "done",
                             !.outcome = IF inits[i].callback THEN "null" ELSE "rejected"]]
            /\ UNCHANGED <<instances, pools>>
    /\ UNCHANGED migrateVars
    /\ UNCHANGED check
    /\ UNCHANGED txnVars

NextInit ==
    \/ \E i \in Callers, u \in ConnectionStrings, callback \in BOOLEAN : InitCall(i, u, callback)
    \/ \E i \in Callers, answer \in {"created", "42P04", "error"} : InitEnsureDatabase(i, answer)
    \/ \E i \in Callers, connected \in BOOLEAN : InitConnect(i, connected)

SpecInit == InitInit /\ [][NextInit]_vars

\* C17: init is idempotent per connection string: all successful init calls with the
\* same connection string, calls that overlap in time included, return the same
\* cached instance, and at most one instance and pool is ever installed for it
C17_OneInstancePerConnectionString ==
    /\ \A i, j \in Callers :
          /\ inits[i].outcome = "instance" /\ inits[j].outcome = "instance"
          /\ inits[i].connectionString = inits[j].connectionString
          => inits[i].returned = inits[j].returned
    /\ \A u \in ConnectionStrings :
          Cardinality({k \in pools : inits[k].connectionString = u}) <= 1


(***************************************************************************)
(* Morm.transaction on its own: calls with a callback fn and a config,     *)
(* against a database that holds the table users                           *)
(***************************************************************************)
MaxTxnCalls == 2

\* a ?? b ?? c on options that may be undefined
firstDefined(a, b, c) == IF a # <<>> THEN a[1] ELSE IF b # <<>> THEN b[1] ELSE c

\* SET LOCAL lock_timeout / statement_timeout = '<ms>ms': PostgreSQL rejects a
\* value below 0
setLocalAccepted(ms) == ms >= 0

\* the values a caller gives for maxWait and timeout
TimeoutOptions == {<<>>, <<100>>, <<0 - 5>>}

\* the callbacks: what fn does with the client, and whether it throws
Callbacks == {"insert", "delete", "insertThenThrow", "throw"}

\* the rows of table users after the statements of fn
fnWrites(d, fn) ==
    IF fn \in {"insert", "insertThenThrow"}
    THEN putTable(d, [getTable(d, "users") EXCEPT !.rows = TRUE])
    ELSE IF fn = "delete"
    THEN putTable(d, [getTable(d, "users") EXCEPT !.rows = FALSE])
    ELSE d
fnThrows(fn) == fn \in {"insertThenThrow", "throw"}

\* the variables that a call of transaction does not touch
txnFrame == <<models, enumRegistry, migrating, pc, options, result, log, notes,
              refused, declared, redeclared>>

InitTransaction ==
    /\ declared = Declaration(<<>>, <<users>>)
    /\ models = buildModels(declared)
    /\ enumRegistry = EmptyRegistry
    /\ migrating = FALSE
    /\ db = createTable(Session(EmptyDb), "users", columnsSQL(models[1].columns)).db
    /\ tx = db
    /\ inTx = FALSE
    /\ pc = Idle
    /\ options = [reset |-> FALSE]
    /\ result = "none"
    /\ log = <<>>
    /\ db0 = db
    /\ notes = {}
    /\ refused = "none"
    /\ calls = 0
    /\ redeclared = FALSE
    /\ NoInit
    /\ NoCheck
    /\ settings = ServerSettings
    /\ \E w \in TimeoutOptions, t \in TimeoutOptions :
           txn = [NoTxnCall EXCEPT !.configured = [maxWait |-> w, timeout |-> t]]

\* const client = await this.pool.connect(); maxWait and timeout are computed
TxnCall(fn, config, connected) ==
    /\ txn.at \in {"none", "returned"}
    /\ calls < MaxTxnCalls
    /\ calls' = calls + 1
    /\ db0' = db
    /\ txn' = IF ~connected
              THEN [NoTxnCall EXCEPT !.configured = txn.configured, !.fn = fn,
                                     !.at = "returned", !.raised = <<"connect">>,
                                     !.outcome = "thrown", !.thrown = "connect"]
              ELSE [NoTxnCall EXCEPT !.configured = txn.configured, !.fn = fn,
                                     !.at = "begin", !.connected = TRUE,
                                     !.maxWait = firstDefined(config.maxWait,
                                                     txn.configured.maxWait, 2000),
                                     !.timeout = firstDefined(config.timeout,
                                                     txn.configured.timeout, 5000)]
    /\ UNCHANGED <<db, tx, inTx, settings>>
    /\ UNCHANGED txnFrame
    /\ UNCHANGED initVars
    /\ UNCHANGED check

\* await client.query("BEGIN")
TxnBegin ==
    /\ txn.at = "begin"
    /\ inTx' = TRUE
    /\ tx' = db
    /\ txn' = [txn EXCEPT !.at = "lock_timeout"]
    /\ UNCHANGED <<db, db0, calls, settings>>
    /\ UNCHANGED txnFrame
    /\ UNCHANGED initVars
    /\ UNCHANGED check

\* await client.query(`SET LOCAL lock_timeout = '${maxWait}ms'`)
TxnSetLockTimeout ==
    /\ txn.at = "lock_timeout"
    /\ IF setLocalAccepted(txn.maxWait)
       THEN /\ settings' = [settings EXCEPT !.lock_timeout = txn.maxWait]
            /\ txn' = [txn EXCEPT !.at = "statement_timeout"]
       ELSE /\ txn' = [txn EXCEPT !.at = "catch", !.raised = Append(@, "lock_timeout")]
            /\ UNCHANGED settings
    /\ UNCHANGED <<db, tx, inTx, db0, calls>>
    /\ UNCHANGED txnFrame
    /\ UNCHANGED initVars
    /\ UNCHANGED check

\* await client.query(`SET LOCAL statement_timeout = '${timeout}ms'`)
TxnSetStatementTimeout ==
    /\ txn.at = "statement_timeout"
    /\ IF setLocalAccepted(txn.timeout)
       THEN /\ settings' = [settings EXCEPT !.statement_timeout = txn.timeout]
            /\ txn' = [txn EXCEPT !.at = "fn"]
       ELSE /\ txn' = [txn EXCEPT !.at = "catch", !.raised = Append(@, "statement_timeout")]
            /\ UNCHANGED settings
    /\ UNCHANGED <<db, tx, inTx, db0, calls>>
    /\ UNCHANGED txnFrame
    /\ UNCHANGED initVars
    /\ UNCHANGED check

\* const result = await fn(client)
TxnFn ==
    /\ txn.at = "fn"
    /\ tx' = fnWrites(tx, txn.fn)
    /\ txn' = IF fnThrows(txn.fn)
              THEN [txn EXCEPT !.at = "catch", !.raised = Append(@, "fn")]
              ELSE [txn EXCEPT !.at = "commit", !.completed = TRUE]
    /\ UNCHANGED <<db, inTx, db0, calls, settings>>
    /\ UNCHANGED txnFrame
    /\ UNCHANGED initVars
    /\ UNCHANGED check

\* await client.query("COMMIT"); return result: SET LOCAL ends with the transaction
TxnCommit ==
    /\ txn.at = "commit"
    /\ db' = tx
    /\ inTx' = FALSE
    /\ settings' = ServerSettings
    /\ txn' = [txn EXCEPT !.at = "finally", !.committed = TRUE]
    /\ UNCHANGED <<tx, db0, calls>>
    /\ UNCHANGED txnFrame
    /\ UNCHANGED initVars
    /\ UNCHANGED check

\* catch (err) { await client.query("ROLLBACK"); throw err; }
TxnCatch ==
    /\ txn.at = "catch"
    /\ tx' = db
    /\ inTx' = FALSE
    /\ settings' = ServerSettings
    /\ txn' = [txn EXCEPT !.at = "finally", !.thrown = txn.raised[1]]
    /\ UNCHANGED <<db, db0, calls>>
    /\ UNCHANGED txnFrame
    /\ UNCHANGED initVars
    /\ UNCHANGED check

\* a finally block that leaves the client checked out
releaseNever(t) == t

\* client.release()
release(t) == [t EXCEPT !.released = @ + 1]

\* finally { client.release(); }, then the call returns or throws
TxnFinally ==
    /\ txn.at = "finally"
    /\ txn' = [release(txn) EXCEPT !.at = "returned",
                                   !.outcome = IF txn.thrown # "none" THEN "thrown"
                                               ELSE "returned"]
    /\ UNCHANGED <<db, tx, inTx, db0, calls, settings>>
    /\ UNCHANGED txnFrame
    /\ UNCHANGED initVars
    /\ UNCHANGED check

NextTransaction ==
    \/ \E fn \in Callbacks, w \in TimeoutOptions, t \in TimeoutOptions, connected \in BOOLEAN :
          TxnCall(fn, [maxWait |-> w, timeout |-> t], connected)
    \/ TxnBegin
    \/ TxnSetLockTimeout
    \/ TxnSetStatementTimeout
    \/ TxnFn
    \/ TxnCommit
    \/ TxnCatch
    \/ TxnFinally

SpecTransaction == InitTransaction /\ [][NextTransaction]_vars

LowerLetters == <<"a", "b", "c", "d", "e", "f", "g", "h", "i", "j", "k", "l", "m",
                  "n", "o", "p", "q", "r", "s", "t", "u", "v", "w", "x", "y", "z">>
UpperLetters == <<"A", "B", "C", "D", "E", "F", "G", "H", "I", "J", "K", "L", "M",
                  "N", "O", "P", "Q", "R", "S", "T", "U", "V", "W", "X", "Y", "Z">>
Digits == {"0", "1", "2", "3", "4", "5", "6", "7", "8", "9"}

isWhitespace(ch) == ch \in {" ", "\t", "\n", "\r"}
isDigit(ch) == ch \in Digits
isIdentStart(ch) == ch \in Range(LowerLetters) \cup Range(UpperLetters) \cup {"_"}
isIdentPart(ch) == isIdentStart(ch) \/ isDigit(ch) \/ ch \in {".", "$"}

\* toUpperCase and toLowerCase, letter by letter
upperChar(ch) ==
    IF ch \in Range(LowerLetters)
    THEN UpperLetters[CHOOSE i \in DOMAIN LowerLetters : LowerLetters[i] = ch]
    ELSE ch
lowerChar(ch) ==
    IF ch \in Range(UpperLetters)
    THEN LowerLetters[CHOOSE i \in DOMAIN UpperLetters : UpperLetters[i] = ch]
    ELSE ch
upperText(chars) == [i \in DOMAIN chars |-> upperChar(chars[i])]
lowerText(chars) == [i \in DOMAIN chars |-> lowerChar(chars[i])]

RECURSIVE join(_)
\* the string made of the characters
join(chars) == IF chars = <<>> THEN "" ELSE Head(chars) \o join(Tail(chars))

\* input[i], the empty string past the end (input.slice does not fail there)
charAt(input, i) == IF i \in DOMAIN input THEN input[i] ELSE ""

RECURSIVE escapeSqlString(_)
\* s.replace(/'/g, "''")
escapeSqlString(chars) ==
    IF chars = <<>> THEN <<>>
    ELSE (IF Head(chars) = "'" THEN <<"'", "'">> ELSE <<Head(chars)>>)
         \o escapeSqlString(Tail(chars))

EofToken == [type |-> "eof", value |-> ""]
Token(type, value) == [type |-> type, value |-> value]

RECURSIVE scanString(_, _, _, _)
\* the inner loop of a string literal, from position j: [closed, j, buf]
scanString(input, j, quote, buf) ==
    IF j > Len(input) THEN [closed |-> FALSE, j |-> j, buf |-> buf]
    ELSE LET cj == input[j] IN
         IF cj = "\\" /\ j + 1 <= Len(input)
         THEN scanString(input, j + 2, quote, Append(buf, input[j + 1]))
         ELSE IF cj = quote THEN [closed |-> TRUE, j |-> j + 1, buf |-> buf]
         ELSE scanString(input, j + 1, quote, Append(buf, cj))

RECURSIVE scanNumber(_, _, _)
\* the inner loop of a number literal: the position after its last character
scanNumber(input, j, seenDot) ==
    IF j > Len(input) THEN j
    ELSE LET cj == input[j] IN
         IF cj = "." THEN (IF seenDot THEN j ELSE scanNumber(input, j + 1, TRUE))
         ELSE IF ~isDigit(cj) THEN j
         ELSE scanNumber(input, j + 1, seenDot)

RECURSIVE scanIdent(_, _)
\* while (j < len && isIdentPart(input[j])) j++
scanIdent(input, j) ==
    IF j <= Len(input) /\ isIdentPart(input[j]) THEN scanIdent(input, j + 1) ELSE j

RECURSIVE tokenizeFrom(_, _, _)
\* the loop of tokenize with i at position at and the tokens found so far:
\* [ok, tokens], ok = FALSE when it throws.  The value of an operator or punctuation
\* token is a string, that of a number, string or identifier token is its sequence
\* of characters
tokenizeFrom(input, at, found) ==
    The({
    IF i > Len(input) THEN [ok |-> TRUE, tokens |-> Append(tokens, EofToken)]
    ELSE LET ch == input[i]
             two == ch \o charAt(input, i + 1)
             three == two \o charAt(input, i + 2)
         IN
         IF isWhitespace(ch) THEN tokenizeFrom(input, i + 1, tokens)
         \* punctuation
         ELSE IF ch \in {"(", ")", ",", "[", "]"}
         THEN tokenizeFrom(input, i + 1, Append(tokens, Token("punc", ch)))
         \* operators
         ELSE IF three \in {"===", "!=="}
         THEN tokenizeFrom(input, i + 3, Append(tokens, Token("op", three)))
         ELSE IF two \in {"==", "!=", ">=", "<=", "&&", "||"}
         THEN tokenizeFrom(input, i + 2, Append(tokens, Token("op", two)))
         ELSE IF ch \in {">", "<", "!", "+", "-", "*", "/"}
         THEN tokenizeFrom(input, i + 1, Append(tokens, Token("op", ch)))
         \* strings
         ELSE IF ch \in {"'", "\""}
         THEN The({ IF ~str.closed THEN [ok |-> FALSE, tokens |-> tokens]
                    ELSE tokenizeFrom(input, str.j, Append(tokens, Token("str", str.buf)))
                  : str \in {scanString(input, i + 1, ch, <<>>)} })
         \* numbers
         ELSE IF isDigit(ch) \/ (ch = "-" /\ isDigit(charAt(input, i + 1)))
         THEN The({ tokenizeFrom(input, j, Append(tokens, Token("num", SubSeq(input, i, j - 1))))
                  : j \in {scanNumber(input, IF ch = "-" THEN i + 1 ELSE i, FALSE)} })
         \* identifiers / keywords
         ELSE IF isIdentStart(ch)
         THEN The({ LET raw == SubSeq(input, i, j - 1)
                        upper == upperText(raw)
                    IN  IF upper = <<"A", "N", "D">>
                        THEN tokenizeFrom(input, j, Append(tokens, Token("op", "&&")))
                        ELSE IF upper = <<"O", "R">>
                        THEN tokenizeFrom(input, j, Append(tokens, Token("op", "||")))
                        ELSE tokenizeFrom(input, j, Append(tokens, Token("ident", raw)))
                  : j \in {scanIdent(input, i + 1)} })
         ELSE [ok |-> FALSE, tokens |-> tokens]
    : i \in {at}, tokens \in {found} })

tokenize(input) == tokenizeFrom(input, 1, <<>>)

\* the nodes of the syntax tree
Literal(kind, text) == [type |-> "Literal", kind |-> kind, text |-> text]
Identifier(name) == [type |-> "Identifier", name |-> name]
FunctionCall(name, args) == [type |-> "FunctionCall", name |-> name, args |-> args]
ArrayLit(items) == [type |-> "ArrayLit", items |-> items]
UnaryOp(op, expr) == [type |-> "UnaryOp", op |-> op, expr |-> expr]
BinaryOp(op, left, right) == [type |-> "BinaryOp", op |-> op, left |-> left, right |-> right]

\* what a parse function gives: the node and the position after it, or a throw
Parsed(node, idx) == [ok |-> TRUE, node |-> node, idx |-> idx]
SyntaxError == [ok |-> FALSE, node |-> Identifier(<<>>), idx |-> 0]

peek(tokens, idx) == IF idx \in DOMAIN tokens THEN tokens[idx] ELSE EofToken
isOp(t, value) == t.type = "op" /\ t.value = value
isPunc(t, value) == t.type = "punc" /\ t.value = value

RECURSIVE stripLeadingZeros(_)
stripLeadingZeros(digits) ==
    IF Len(digits) > 1 /\ Head(digits) = "0" THEN stripLeadingZeros(Tail(digits))
    ELSE digits
RECURSIVE stripTrailingZeros(_)
stripTrailingZeros(digits) ==
    IF digits # <<>> /\ digits[Len(digits)] = "0"
    THEN stripTrailingZeros(SubSeq(digits, 1, Len(digits) - 1))
    ELSE digits

\* String(Number(value)) for the text of a number token
numberText(value) ==
    LET negative == Head(value) = "-"
        body == IF negative THEN Tail(value) ELSE value
        dots == {i \in DOMAIN body : body[i] = "."}
        dot == IF dots = {} THEN Len(body) + 1 ELSE CHOOSE i \in dots : TRUE
        whole == stripLeadingZeros(IF dot = 1 THEN <<"0">> ELSE SubSeq(body, 1, dot - 1))
        fraction == stripTrailingZeros(SubSeq(body, dot + 1, Len(body)))
        isZero == whole = <<"0">> /\ fraction = <<>>
    IN  (IF negative /\ ~isZero THEN <<"-">> ELSE <<>>)
        \o whole \o (IF fraction = <<>> THEN <<>> ELSE <<".">> \o fraction)

RECURSIVE parseOr(_, _)
RECURSIVE parseOrLoop(_, _)
RECURSIVE parseAnd(_, _)
RECURSIVE parseAndLoop(_, _)
RECURSIVE parseNot(_, _)
RECURSIVE parseComparison(_, _)
RECURSIVE parseAdd(_, _)
RECURSIVE parseAddLoop(_, _)
RECURSIVE parsePrimary(_, _)
RECURSIVE parseItems(_, _)

parseExpression(tokens, idx) == parseOr(tokens, idx)

\* while (peek is ||) { next(); node = BinaryOp(||, node, parseAnd()) }
parseOrLoop(tokens, node) ==
    The({ IF ~left.ok \/ ~isOp(peek(tokens, left.idx), "||") THEN left
          ELSE The({ IF ~right.ok THEN SyntaxError
                     ELSE parseOrLoop(tokens,
                              Parsed(BinaryOp("||", left.node, right.node), right.idx))
                   : right \in {parseAnd(tokens, left.idx + 1)} })
        : left \in {node} })
parseOr(tokens, idx) == parseOrLoop(tokens, parseAnd(tokens, idx))

parseAndLoop(tokens, node) ==
    The({ IF ~left.ok \/ ~isOp(peek(tokens, left.idx), "&&") THEN left
          ELSE The({ IF ~right.ok THEN SyntaxError
                     ELSE parseAndLoop(tokens,
                              Parsed(BinaryOp("&&", left.node, right.node), right.idx))
                   : right \in {parseNot(tokens, left.idx + 1)} })
        : left \in {node} })
parseAnd(tokens, idx) == parseAndLoop(tokens, parseNot(tokens, idx))

parseNot(tokens, idx) ==
    IF isOp(peek(tokens, idx), "!")
    THEN The({ IF ~expr.ok THEN SyntaxError ELSE Parsed(UnaryOp("!", expr.node), expr.idx)
             : expr \in {parseNot(tokens, idx + 1)} })
    ELSE parseComparison(tokens, idx)

ComparisonOps == {"===", "==", "!==", "!=", ">=", "<=", ">", "<"}

parseComparison(tokens, idx) ==
    The({ IF ~left.ok THEN SyntaxError
          ELSE LET t == peek(tokens, left.idx) IN
               IF t.type = "op" /\ t.value \in ComparisonOps
               THEN The({ IF ~right.ok THEN SyntaxError
                          ELSE Parsed(BinaryOp(t.value, left.node, right.node), right.idx)
                        : right \in {parseAdd(tokens, left.idx + 1)} })
               ELSE left
        : left \in {parseAdd(tokens, idx)} })

\* while (peek is + - * /) { op = next(); node = BinaryOp(op, node, parsePrimary()) }
parseAddLoop(tokens, node) ==
    The({ IF ~left.ok THEN left
          ELSE LET t == peek(tokens, left.idx) IN
               IF ~(t.type = "op" /\ t.value \in {"+", "-", "*", "/"}) THEN left
               ELSE The({ IF ~right.ok THEN SyntaxError
                          ELSE parseAddLoop(tokens,
                                   Parsed(BinaryOp(t.value, left.node, right.node), right.idx))
                        : right \in {parsePrimary(tokens, left.idx + 1)} })
        : left \in {node} })
parseAdd(tokens, idx) == parseAddLoop(tokens, parsePrimary(tokens, idx))

\* while (true) { items.push(parseExpression()); if (peek is ",") { next(); continue; }
\* break; }: [ok, items, idx]
parseItems(tokens, idx) ==
    The({ IF ~item.ok THEN [ok |-> FALSE, items |-> <<>>, idx |-> 0]
          ELSE IF isPunc(peek(tokens, item.idx), ",")
          THEN The({ IF ~rest.ok THEN rest ELSE [rest EXCEPT !.items = <<item.node>> \o @]
                   : rest \in {parseItems(tokens, item.idx + 1)} })
          ELSE [ok |-> TRUE, items |-> <<item.node>>, idx |-> item.idx]
        : item \in {parseExpression(tokens, idx)} })

\* the arguments of a call or the items of an array literal, from the token after
\* the opening bracket; expectPunc(closing) ends it
parseList(tokens, idx, closing) ==
    The({ IF ~list.ok \/ ~isPunc(peek(tokens, list.idx), closing)
          THEN [ok |-> FALSE, items |-> <<>>, idx |-> 0]
          ELSE [list EXCEPT !.idx = @ + 1]
        : list \in {IF isPunc(peek(tokens, idx), closing)
                    THEN [ok |-> TRUE, items |-> <<>>, idx |-> idx]
                    ELSE parseItems(tokens, idx)} })

parsePrimary(tokens, idx) ==
    LET t == peek(tokens, idx) IN
    IF t.type = "num" THEN Parsed(Literal("number", numberText(t.value)), idx + 1)
    ELSE IF t.type = "str" THEN Parsed(Literal("string", t.value), idx + 1)
    ELSE IF t.type = "ident" /\ lowerText(t.value) = <<"t", "r", "u", "e">>
    THEN Parsed(Literal("boolean", <<"T", "R", "U", "E">>), idx + 1)
    ELSE IF t.type = "ident" /\ lowerText(t.value) = <<"f", "a", "l", "s", "e">>
    THEN Parsed(Literal("boolean", <<"F", "A", "L", "S", "E">>), idx + 1)
    ELSE IF t.type = "ident" /\ lowerText(t.value) = <<"n", "u", "l", "l">>
    THEN Parsed(Literal("null", <<"N", "U", "L", "L">>), idx + 1)
    ELSE IF t.type = "ident"
    THEN IF isPunc(peek(tokens, idx + 1), "(")
         THEN The({ IF ~args.ok THEN SyntaxError
                    ELSE Parsed(FunctionCall(t.value, args.items), args.idx)
                  : args \in {parseList(tokens, idx + 2, ")")} })
         ELSE IF isPunc(peek(tokens, idx + 1), "[")
         THEN The({ IF ~items.ok THEN SyntaxError
                    ELSE Parsed(ArrayLit(items.items), items.idx)
                  : items \in {parseList(tokens, idx + 2, "]")} })
         ELSE Parsed(Identifier(t.value), idx + 1)
    ELSE IF isPunc(t, "(")
    THEN The({ IF ~node.ok \/ ~isPunc(peek(tokens, node.idx), ")") THEN SyntaxError
               ELSE Parsed(node.node, node.idx + 1)
             : node \in {parseExpression(tokens, idx + 1)} })
    ELSE SyntaxError

\* parse(tokens): content after the end of the expression is a SyntaxError
parse(tokens) ==
    The({ IF ast.ok /\ peek(tokens, ast.idx).type # "eof" THEN SyntaxError ELSE ast
        : ast \in {parseExpression(tokens, 1)} })

\* the operator of a BinaryOp in SQL
opMap(op) ==
    CASE op = "||" -> "OR"
      [] op = "&&" -> "AND"
      [] op \in {"===", "=="} -> "="
      [] op \in {"!==", "!="} -> "<>"
      [] OTHER -> op

RECURSIVE astToSql(_)
RECURSIVE joinSql(_)
\* node.args.map(astToSql).join(", ")
joinSql(nodes) ==
    IF nodes = <<>> THEN ""
    ELSE IF Len(nodes) = 1 THEN astToSql(nodes[1])
    ELSE astToSql(Head(nodes)) \o ", " \o joinSql(Tail(nodes))

astToSql(node) ==
    CASE node.type = "Literal" ->
             IF node.kind = "string" THEN "'" \o join(escapeSqlString(node.text)) \o "'"
             ELSE join(node.text)
      [] node.type = "Identifier" -> join(node.name)
      [] node.type = "FunctionCall" -> join(node.name) \o "(" \o joinSql(node.args) \o ")"
      [] node.type = "ArrayLit" -> "ARRAY[" \o joinSql(node.items) \o "]"
      [] node.type = "UnaryOp" -> "NOT (" \o astToSql(node.expr) \o ")"
      [] node.type = "BinaryOp" ->
             "(" \o astToSql(node.left) \o " " \o opMap(node.op) \o " "
                 \o astToSql(node.right) \o ")"

\* parseCheck on the characters of an expression: the SQL, or "throw"
parseCheckText(input) ==
    The({ IF ~tokens.ok THEN "throw"
          ELSE The({ IF ~ast.ok THEN "throw" ELSE astToSql(ast.node)
                   : ast \in {parse(tokens.tokens)} })
        : tokens \in {tokenize(input)} })

(***************************************************************************)
(* parseCheck on its own: an expression is given and parsed                *)
(***************************************************************************)
RECURSIVE spaced(_)
\* the words, one space between two of them
spaced(words) ==
    IF words = <<>> THEN <<>>
    ELSE IF Len(words) = 1 THEN words[1]
    ELSE Head(words) \o <<" ">> \o spaced(Tail(words))

ArithmeticOps == {"+", "-", "*", "/"}
\* comparison operators as written, with their SQL
Comparisons == { [text |-> <<">">>, sql |-> ">"], [text |-> <<">", "=">>, sql |-> ">="],
                 [text |-> <<"<">>, sql |-> "<"], [text |-> <<"<", "=">>, sql |-> "<="],
                 [text |-> <<"=", "=", "=">>, sql |-> "="], [text |-> <<"=", "=">>, sql |-> "="],
                 [text |-> <<"!", "=", "=">>, sql |-> "<>"], [text |-> <<"!", "=">>, sql |-> "<>"] }
\* number literals as written, with their value in SQL
Numbers == { [text |-> <<"0">>, sql |-> "0"], [text |-> <<"2", "5">>, sql |-> "25"],
             [text |-> <<"1", ".", "5", "0">>, sql |-> "1.5"] }
SignedNumbers == { [text |-> <<"5">>, sql |-> "5"], [text |-> <<"-", "5">>, sql |-> "-5"],
                   [text |-> <<"1", ".", "5">>, sql |-> "1.5"],
                   [text |-> <<"-", "1", ".", "5">>, sql |-> "-1.5"],
                   [text |-> <<"-", "0", ".", "2", "5">>, sql |-> "-0.25"] }
\* and / or as written
Connectives == { [text |-> <<"&", "&">>, sql |-> "AND"], [text |-> <<"A", "N", "D">>, sql |-> "AND"],
                 [text |-> <<"|", "|">>, sql |-> "OR"], [text |-> <<"o", "r">>, sql |-> "OR"] }
Columns == { [text |-> <<"b", "a", "l", "a", "n", "c", "e">>, sql |-> "balance"],
             [text |-> <<"a">>, sql |-> "a"] }

\* a op1 b op2 c cmp n
Arithmetic == [op1 : ArithmeticOps, op2 : ArithmeticOps,
               cmp : {c \in Comparisons : c.text \in {<<">">>, <<">", "=">>, <<"=", "=", "=">>}},
               n : Numbers]
arithmeticSource(p) ==
    spaced(<<<<"a">>, <<p.op1>>, <<"b">>, <<p.op2>>, <<"c">>, p.cmp.text, p.n.text>>)

\* x > 1 c1 y > 2 c2 z > 3, the last comparison negated or not
Boolean == [c1 : Connectives, c2 : Connectives, negated : BOOLEAN]
booleanSource(p) ==
    spaced(<<<<"x">>, <<">">>, <<"1">>, p.c1.text, <<"y">>, <<">">>, <<"2">>, p.c2.text,
             (IF p.negated THEN <<"!">> ELSE <<>>) \o <<"z">>, <<">">>, <<"3">>>>)

\* column cmp n
Simple == [column : Columns, cmp : Comparisons, n : SignedNumbers]
simpleSource(p) == spaced(<<p.column.text, p.cmp.text, p.n.text>>)

\* age >= 18 && (role === 'ADMIN' || role === 'STUDENT')
AdultWithRole ==
    spaced(<<<<"a", "g", "e">>, <<">", "=">>, <<"1", "8">>, <<"&", "&">>,
             <<"(", "r", "o", "l", "e">>, <<"=", "=", "=">>, <<"'", "A", "D", "M", "I", "N", "'">>,
             <<"|", "|">>, <<"r", "o", "l", "e">>, <<"=", "=", "=">>,
             <<"'", "S", "T", "U", "D", "E", "N", "T", "'", ")">>>>)
\* a call, an array literal, string literals (one unterminated), a character that
\* is no token, content after the expression, a missing parenthesis
OtherSources ==
    { AdultWithRole,
      <<"l", "e", "n", "g", "t", "h", "(", "n", "a", "m", "e", ",", " ", "1", ")", " ", ">", " ", "0">>,
      <<"t", "a", "g", "s", "[", "1", ",", "2", "]", " ", "=", "=", " ", "n", "u", "l", "l">>,
      <<"n", "a", "m", "e", " ", "!", "=", " ", "'", "i", "t", "\\", "'", "s", "'">>,
      <<"n", "a", "m", "e", " ", "!", "=", " ", "'", "i", "t">>,
      <<"n", "a", "m", "e", " ", "!", "=", " ", "\"", "i", "t", "'", "s", "\"">>,
      <<"a", " ", "#", " ", "1">>,
      <<"a", " ", ">", " ", "1", " ", "b">>,
      <<"(", "a", " ", ">", " ", "1">> }

CheckSources ==
    {arithmeticSource(p) : p \in Arithmetic} \cup {booleanSource(p) : p \in Boolean}
    \cup {simpleSource(p) : p \in Simple} \cup OtherSources

InitCheck ==
    /\ declared = Declaration(<<>>, <<>>)
    /\ models = <<>>
    /\ enumRegistry = EmptyRegistry
    /\ migrating = FALSE
    /\ db = EmptyDb
    /\ tx = EmptyDb
    /\ inTx = FALSE
    /\ pc = Idle
    /\ options = [reset |-> FALSE]
    /\ result = "none"
    /\ log = <<>>
    /\ db0 = EmptyDb
    /\ notes = {}
    /\ refused = "none"
    /\ calls = 0
    /\ redeclared = FALSE
    /\ NoInit
    /\ NoTransaction
    /\ \E source \in CheckSources : check = [input |-> source, sql |-> "none"]

\* parseCheck(input): tokenize, parse, astToSql
ParseCheck ==
    /\ check.sql = "none"
    /\ check' = [check EXCEPT !.sql = parseCheckText(check.input)]
    /\ UNCHANGED migrateVars
    /\ UNCHANGED initVars
    /\ UNCHANGED txnVars

NextCheck == ParseCheck

SpecCheck == InitCheck /\ [][NextCheck]_vars

\* the arithmetic of a op1 b op2 c with * and / grouped before + and -
arithmeticSql(p) ==
    IF p.op2 \in {"*", "/"} /\ p.op1 \in {"+", "-"}
    THEN "(a " \o p.op1 \o " (b " \o p.op2 \o " c))"
    ELSE "((a " \o p.op1 \o " b) " \o p.op2 \o " c)"

\* x > 1 c1 y > 2 c2 z > 3 with and grouped before or, and not applied to the
\* comparison that follows it
booleanSql(p) ==
    LET x == "(x > 1)"
        y == "(y > 2)"
        z == IF p.negated THEN "NOT ((z > 3))" ELSE "(z > 3)"
    IN  IF p.c2.sql = "AND" /\ p.c1.sql = "OR"
        THEN "(" \o x \o " OR (" \o y \o " AND " \o z \o "))"
        ELSE "((" \o x \o " " \o p.c1.sql \o " " \o y \o ") " \o p.c2.sql \o " " \o z \o ")"

\* C39: the SQL that parseCheck gives is the source expression parenthesized by
\* precedence: or, then and, then not, then comparison, then arithmetic with * and /
\* grouped before + and -; a + b * c > 0 gives ((a + (b * c)) > 0)
C39_ParenthesesKeepPrecedence ==
    check.sql # "none" =>
        /\ \A p \in Arithmetic :
              check.input = arithmeticSource(p) =>
                  check.sql = "(" \o arithmeticSql(p) \o " " \o p.cmp.sql \o " " \o p.n.sql \o ")"
        /\ \A p \in Boolean :
              check.input = booleanSource(p) => check.sql = booleanSql(p)
        /\ check.input = AdultWithRole =>
              check.sql = "((age >= 18) AND ((role = 'ADMIN') OR (role = 'STUDENT')))"

\* C40: a comparison of a column with a number literal, negative or not, decimal or
\* not, is parsed without error and gives (column cmp number); balance >= -5 gives
\* (balance >= -5)
C40_NegativeAndDecimalNumbers ==
    check.sql # "none" =>
        \A p \in Simple :
            check.input = simpleSource(p) =>
                check.sql = "(" \o p.column.sql \o " " \o p.cmp.sql \o " " \o p.n.sql \o ")"

====
